---------------------------- MODULE Spec2Model ----------------------------
(***************************************************************************)
(* Model of the userspace internet simulation (package uis): the virtual   *)
(* NIC (VNIC), the Internet router with its bounded in-flight channel, and *)
(* the packet capture (PCAPTrace) with its background saveLoop goroutine.  *)
(*                                                                         *)
(* Goroutines are the processes of Procs.  Every exported method is split  *)
(* into one step per statement that touches shared state, so that the      *)
(* RWMutex of the VNIC and of the Internet, modelled explicitly, is what   *)
(* makes a critical section atomic.                                        *)
(***************************************************************************)
EXTENDS Integers, Sequences, FiniteSets, TLC

\* ------------------------------------------------------------------ bounds

\* Operations started in one behaviour.
MaxOps == 3

\* Largest transit-queue capacity a behaviour constructs the Internet with.
MaxInflight == 1

\* Longest address list passed to one AddRoute call.
MaxAddrs == 2

\* Longest packet list passed to one WritePackets call.
MaxBatch == 2

\* Largest snapshot-queue capacity passed to PCAPTraceOptionBuffer.
MaxBufferSize == 1

\* Largest number of options passed to NewPCAPTrace.
MaxOptions == 2

\* ------------------------------------------------------- program constants

MTUEthernet == 1500

DefaultMaxInflight == 1024

\* bufferSize: 4096 of NewPCAPTrace
DefaultBufferSize == 4096

\* const manyPackets = 4096 of NewPcapTrace
manyPackets == 4096

\* ------------------------------------------------------------ value spaces

Procs == {"p1", "p2"}

VNICs == {"e1", "e2"}

\* The dispatcher of the protocol stack that sits on top of an endpoint.
DispOf(v) == IF v = "e1" THEN "d1" ELSE "d2"

Dispatchers == {DispOf(v) : v \in VNICs}

\* A nil stack.NetworkDispatcher, a nil VNICNetwork, a nil func().
NoDisp == "nil"

NoNet == "nil"

NoHook == "nil"

Hooks == {"h1"}

\* A process that is no process: the owner of an unlocked mutex.
NoProc == "none"

\* uint32(len(x)): the conversion keeps every length below 2^32, and a
\* frame of the model is at most a few dozen bytes long (a length of 2^32
\* or more is beyond the integers the model checker represents).
ToUint32(n) == IF n >= 0 /\ n <= 2147483647 THEN n ELSE -1

RECURSIVE Zeros(_)
Zeros(n) == IF n = 0 THEN << >> ELSE <<0>> \o Zeros(n - 1)

\* netip.Addr values, as the bytes netip.AddrFromSlice builds them from:
\* a 4-byte slice gives an IPv4 address, a 16-byte slice an IPv6 address.
AddrA4 == <<10, 0, 0, 1>>

AddrB4 == <<10, 0, 0, 2>>

AddrA6 == <<32, 1, 13, 184>> \o Zeros(11) \o <<1>>

Addrs == {AddrA4, AddrB4, AddrA6}

\* A minimal IPv4 header carrying dst, followed by a payload.
IPv4Packet(dst, payload) == <<69>> \o Zeros(15) \o dst \o payload

\* A minimal IPv6 header carrying dst.
IPv6Packet(dst) == <<96>> \o Zeros(23) \o dst

\* The raw packets the behaviours inject, deliver and transmit.
ShortPackets == {<< >>, <<112>>, <<69>>, <<69, 0>>, <<96>>}

RoutablePackets == {IPv4Packet(AddrA4, << >>), IPv4Packet(AddrB4, <<7>>), IPv6Packet(AddrA6)}

TruncatedPackets == {SubSeq(IPv4Packet(AddrA4, << >>), 1, 19), SubSeq(IPv6Packet(AddrA6), 1, 39)}

Packets == ShortPackets \cup RoutablePackets \cup TruncatedPackets

MTUs == {1, MTUEthernet}

\* ------------------------------------------------------------------- state

VARIABLES
    vnic,       \* [VNICs -> the VNIC struct: closefunc, disp, network, isclosed, laddr, mtu]
    vmu,        \* [VNICs -> the VNIC's sync.RWMutex: writer, readers]
    routes,     \* Internet.routes: a function from the registered addresses to VNICs
    ixmu,       \* Internet.mu
    inflight,   \* the frames buffered in the Internet.inflight channel
    capacity,   \* the capacity Internet.inflight was made with
    recvq,      \* the goroutines blocked receiving from InFlight()
    pc,         \* [Procs -> where the goroutine is]
    loc,        \* [Procs -> the goroutine's arguments, locals and result]
    delivered,  \* [Dispatchers -> the DeliverNetworkPacket calls received, in order]
    hookLog,    \* [VNICs -> the close hooks the endpoint's Close invoked, in order]
    closedWith, \* [VNICs -> the close hook registered when the endpoint was closed]
    transit,    \* the frames SendFrame accepted and those received from InFlight(), in order
    ops,        \* operations started so far
    tr,         \* the PCAPTrace struct: snaps, dropped, errch, once, snapSize, the cancelled context
    task,       \* the saveLoop goroutine: where it is, the snapshot it holds
    wc          \* the sink (io.WriteCloser): the calls it has received, in order

vars == <<vnic, vmu, routes, ixmu, inflight, capacity, recvq, pc, loc, delivered, hookLog, closedWith, transit, ops, tr, task, wc>>

trVars == <<tr, task, wc>>

fabricVars == <<vnic, vmu, routes, ixmu, inflight, capacity, recvq, delivered, hookLog, closedWith, transit>>

netVars == <<routes, ixmu, inflight, capacity, recvq>>

obsVars == <<delivered, hookLog, closedWith, transit>>

\* ------------------------------------------------------------ sync.RWMutex

Unlocked == [writer |-> NoProc, readers |-> {}]

\* Lock waits until no goroutine holds the mutex in either mode.
CanLock(m) == m.writer = NoProc /\ m.readers = {}

\* RLock waits until no goroutine holds the mutex for writing.
CanRLock(m) == m.writer = NoProc

Locked(m, p) == [m EXCEPT !.writer = p]

WUnlocked(m, p) == [m EXCEPT !.writer = IF @ = p THEN NoProc ELSE @]

RLocked(m, p) == [m EXCEPT !.readers = @ \cup {p}]

RUnlocked(m, p) == [m EXCEPT !.readers = @ \ {p}]

\* --------------------------------------------------------- goroutine frames

\* The VNIC fields as a reader saw them when it took the lock (nothing yet).
NoPre == [closefunc |-> NoHook, disp |-> NoDisp, network |-> NoNet, isclosed |-> FALSE, laddr |-> "", mtu |-> 0]

IdleLoc == [op |-> "none", v |-> "none", pkt |-> << >>, pkts |-> << >>, arg |-> "nil", lDisp |-> NoDisp, lClosed |-> FALSE, lMtu |-> 0, lNet |-> NoNet, i |-> 0, num |-> 0, ret |-> "none", pre |-> NoPre, log |-> << >>, dst |-> << >>, tbl |-> << >>, injRet |-> "none"]

NewCall(op, v) == [IdleLoc EXCEPT !.op = op, !.v = v]

Goto(p, label) == pc' = [pc EXCEPT ![p] = label]

\* A goroutine starts an operation: the model bounds how many are started.
Begin(p) == pc[p] = "idle" /\ ops < MaxOps /\ ops' = ops + 1

\* ------------------------------------------------------------------ NewVNIC

NewVNIC(mtu, network) == [closefunc |-> NoHook, disp |-> NoDisp, network |-> network, isclosed |-> FALSE, laddr |-> "", mtu |-> mtu]

\* ------------------------------------------------------------- VNIC.Attach

CallAttach(p, v, d) ==
    /\ Begin(p)
    /\ Goto(p, "Attach_Lock")
    /\ loc' = [loc EXCEPT ![p] = [NewCall("Attach", v) EXCEPT !.arg = d]]
    /\ UNCHANGED <<trVars, vnic, vmu, netVars, obsVars>>

Attach_Lock(p) ==
    /\ pc[p] = "Attach_Lock"
    /\ CanLock(vmu[loc[p].v])
    /\ vmu' = [vmu EXCEPT ![loc[p].v] = Locked(@, p)]
    /\ Goto(p, "Attach_Set")
    /\ UNCHANGED <<trVars, vnic, loc, ops, netVars, obsVars>>

AttachAllowed_Always(v) == TRUE

\* if !n.isclosed
AttachAllowed(v) == ~vnic[v].isclosed

\* if !n.isclosed { n.disp = disp }; ret notes whether the endpoint was closed
Attach_Set(p) ==
    /\ pc[p] = "Attach_Set"
    /\ vnic' = IF AttachAllowed(loc[p].v) THEN [vnic EXCEPT ![loc[p].v].disp = loc[p].arg] ELSE vnic
    /\ loc' = [loc EXCEPT ![p].ret = IF vnic[loc[p].v].isclosed THEN "closed" ELSE "open"]
    /\ Goto(p, "Attach_Unlock")
    /\ UNCHANGED <<trVars, vmu, ops, netVars, obsVars>>

Attach_Unlock(p) ==
    /\ pc[p] = "Attach_Unlock"
    /\ vmu' = [vmu EXCEPT ![loc[p].v] = WUnlocked(@, p)]
    /\ Goto(p, "done")
    /\ UNCHANGED <<trVars, vnic, loc, ops, netVars, obsVars>>

\* -------------------------------------------------------------- VNIC.Close

CallClose(p, v) ==
    /\ Begin(p)
    /\ Goto(p, "Close_Lock")
    /\ loc' = [loc EXCEPT ![p] = NewCall("Close", v)]
    /\ UNCHANGED <<trVars, vnic, vmu, netVars, obsVars>>

\* A Close that takes the lock shared.
Close_Lock_Shared(p) ==
    /\ pc[p] = "Close_Lock"
    /\ CanRLock(vmu[loc[p].v])
    /\ vmu' = [vmu EXCEPT ![loc[p].v] = RLocked(@, p)]
    /\ Goto(p, "Close_Check")
    /\ UNCHANGED <<trVars, vnic, loc, ops, netVars, obsVars>>

Close_Lock(p) ==
    /\ pc[p] = "Close_Lock"
    /\ CanLock(vmu[loc[p].v])
    /\ vmu' = [vmu EXCEPT ![loc[p].v] = Locked(@, p)]
    /\ Goto(p, "Close_Check")
    /\ UNCHANGED <<trVars, vnic, loc, ops, netVars, obsVars>>

\* A Close that does not look at the closed flag.
Close_Check_Always(p) ==
    /\ pc[p] = "Close_Check"
    /\ Goto(p, "Close_SetClosed")
    /\ loc' = [loc EXCEPT ![p].ret = IF vnic[loc[p].v].isclosed THEN "closed" ELSE "open"]
    /\ UNCHANGED <<trVars, vnic, vmu, ops, netVars, obsVars>>

\* if !n.isclosed; ret notes whether the call found the endpoint closed
Close_Check(p) ==
    /\ pc[p] = "Close_Check"
    /\ Goto(p, IF ~vnic[loc[p].v].isclosed THEN "Close_SetClosed" ELSE "Close_Unlock")
    /\ loc' = [loc EXCEPT ![p].ret = IF vnic[loc[p].v].isclosed THEN "closed" ELSE "open"]
    /\ UNCHANGED <<trVars, vnic, vmu, ops, netVars, obsVars>>

\* n.isclosed = true
Close_SetClosed(p) ==
    /\ pc[p] = "Close_SetClosed"
    /\ vnic' = [vnic EXCEPT ![loc[p].v].isclosed = TRUE]
    /\ closedWith' = [closedWith EXCEPT ![loc[p].v] = IF @ = "open" THEN vnic[loc[p].v].closefunc ELSE @]
    /\ Goto(p, "Close_SetDisp")
    /\ UNCHANGED <<trVars, vmu, loc, ops, netVars, delivered, hookLog, transit>>

\* n.disp = nil
Close_SetDisp(p) ==
    /\ pc[p] = "Close_SetDisp"
    /\ vnic' = [vnic EXCEPT ![loc[p].v].disp = NoDisp]
    /\ Goto(p, "Close_Hook")
    /\ UNCHANGED <<trVars, vmu, loc, ops, netVars, obsVars>>

\* Close hooks that call a method of an endpoint: IsAttached, which takes
\* the read lock of its endpoint, or Close, which takes the write lock.
ReadLockingHooks == {"IsAttached_e1", "IsAttached_e2"}

WriteLockingHooks == {"Close_e1", "Close_e2"}

LockingHooks == ReadLockingHooks \cup WriteLockingHooks

\* The endpoint whose method the hook calls.
HookTarget(h) == IF h \in {"IsAttached_e1", "Close_e1"} THEN "e1" ELSE "e2"

\* Where Close goes once it has invoked the hook: into the hook's own
\* call when the hook makes one.
AfterHookInvoked(h) == IF h \in LockingHooks THEN "Hook_Lock" ELSE "Close_Unlock"

\* A Close that releases the lock before it invokes the hook.
Close_Hook_Unlocked(p) ==
    /\ pc[p] = "Close_Hook"
    /\ Goto(p, AfterHookInvoked(vnic[loc[p].v].closefunc))
    /\ hookLog' = IF vnic[loc[p].v].closefunc # NoHook THEN [hookLog EXCEPT ![loc[p].v] = Append(@, vnic[loc[p].v].closefunc)] ELSE hookLog
    /\ vmu' = [vmu EXCEPT ![loc[p].v] = WUnlocked(@, p)]
    /\ UNCHANGED <<trVars, vnic, loc, ops, netVars, delivered, closedWith, transit>>

\* if n.closefunc != nil { n.closefunc() }
Close_Hook(p) ==
    /\ pc[p] = "Close_Hook"
    /\ Goto(p, AfterHookInvoked(vnic[loc[p].v].closefunc))
    /\ hookLog' = IF vnic[loc[p].v].closefunc # NoHook THEN [hookLog EXCEPT ![loc[p].v] = Append(@, vnic[loc[p].v].closefunc)] ELSE hookLog
    /\ UNCHANGED <<trVars, vnic, vmu, loc, ops, netVars, delivered, closedWith, transit>>

\* Inside n.closefunc(): the hook's call takes the lock of its endpoint,
\* n.mu.RLock() in IsAttached or n.mu.Lock() in Close.  sync.RWMutex is
\* not reentrant: the caller waits like any other goroutine.
Hook_Lock(p) ==
    /\ pc[p] = "Hook_Lock"
    /\ Goto(p, "Hook_Unlock")
    /\ LET h == vnic[loc[p].v].closefunc
           t == HookTarget(h)
       IN IF h \in ReadLockingHooks
          THEN CanRLock(vmu[t]) /\ vmu' = [vmu EXCEPT ![t] = RLocked(@, p)]
          ELSE CanLock(vmu[t]) /\ vmu' = [vmu EXCEPT ![t] = Locked(@, p)]
    /\ UNCHANGED <<trVars, vnic, loc, ops, netVars, obsVars>>

\* The hook's call releases the lock and the hook returns to Close.  (The
\* fields its method read or wrote are left out: a Close of the other
\* endpoint is a call of its own in the behaviours.)
Hook_Unlock(p) ==
    /\ pc[p] = "Hook_Unlock"
    /\ Goto(p, "Close_Unlock")
    /\ LET h == vnic[loc[p].v].closefunc
           t == HookTarget(h)
       IN vmu' = [vmu EXCEPT ![t] = IF h \in ReadLockingHooks THEN RUnlocked(@, p) ELSE WUnlocked(@, p)]
    /\ UNCHANGED <<trVars, vnic, loc, ops, netVars, obsVars>>

\* defer n.mu.Unlock()
Close_Unlock(p) ==
    /\ pc[p] = "Close_Unlock"
    /\ vmu' = [vmu EXCEPT ![loc[p].v] = WUnlocked(@, p)]
    /\ Goto(p, "done")
    /\ UNCHANGED <<trVars, vnic, loc, ops, netVars, obsVars>>

\* --------------------------------------------------------- VNIC.IsAttached

CallIsAttached(p, v) ==
    /\ Begin(p)
    /\ Goto(p, "IsAttached_RLock")
    /\ loc' = [loc EXCEPT ![p] = NewCall("IsAttached", v)]
    /\ UNCHANGED <<trVars, vnic, vmu, netVars, obsVars>>

IsAttached_RLock(p) ==
    /\ pc[p] = "IsAttached_RLock"
    /\ CanRLock(vmu[loc[p].v])
    /\ vmu' = [vmu EXCEPT ![loc[p].v] = RLocked(@, p)]
    /\ Goto(p, "IsAttached_Read")
    /\ loc' = [loc EXCEPT ![p].pre = vnic[loc[p].v]]
    /\ UNCHANGED <<trVars, vnic, ops, netVars, obsVars>>

\* An IsAttached that reports every open endpoint attached.
IsAttached_Read_IgnoreDisp(p) ==
    /\ pc[p] = "IsAttached_Read"
    /\ loc' = [loc EXCEPT ![p].ret = ~vnic[loc[p].v].isclosed, ![p].lDisp = vnic[loc[p].v].disp, ![p].lClosed = vnic[loc[p].v].isclosed]
    /\ Goto(p, "IsAttached_RUnlock")
    /\ UNCHANGED <<trVars, vnic, vmu, ops, netVars, obsVars>>

\* attached := n.disp != nil && !n.isclosed
IsAttached_Read(p) ==
    /\ pc[p] = "IsAttached_Read"
    /\ loc' = [loc EXCEPT ![p].ret = (vnic[loc[p].v].disp # NoDisp /\ ~vnic[loc[p].v].isclosed), ![p].lDisp = vnic[loc[p].v].disp, ![p].lClosed = vnic[loc[p].v].isclosed]
    /\ Goto(p, "IsAttached_RUnlock")
    /\ UNCHANGED <<trVars, vnic, vmu, ops, netVars, obsVars>>

IsAttached_RUnlock(p) ==
    /\ pc[p] = "IsAttached_RUnlock"
    /\ vmu' = [vmu EXCEPT ![loc[p].v] = RUnlocked(@, p)]
    /\ Goto(p, "done")
    /\ UNCHANGED <<trVars, vnic, loc, ops, netVars, obsVars>>

\* ---------------------------------- VNIC.SetLinkAddress, SetMTU, SetOnCloseAction

CallSetLinkAddress(p, v, addr) ==
    /\ Begin(p)
    /\ Goto(p, "Set_Lock")
    /\ loc' = [loc EXCEPT ![p] = [NewCall("SetLinkAddress", v) EXCEPT !.arg = addr]]
    /\ UNCHANGED <<trVars, vnic, vmu, netVars, obsVars>>

CallSetMTU(p, v, mtu) ==
    /\ Begin(p)
    /\ Goto(p, "Set_Lock")
    /\ loc' = [loc EXCEPT ![p] = [NewCall("SetMTU", v) EXCEPT !.arg = mtu]]
    /\ UNCHANGED <<trVars, vnic, vmu, netVars, obsVars>>

CallSetOnCloseAction(p, v, action) ==
    /\ Begin(p)
    /\ Goto(p, "Set_Lock")
    /\ loc' = [loc EXCEPT ![p] = [NewCall("SetOnCloseAction", v) EXCEPT !.arg = action]]
    /\ UNCHANGED <<trVars, vnic, vmu, netVars, obsVars>>

\* n.mu.Lock() of the three setters
Set_Lock(p) ==
    /\ pc[p] = "Set_Lock"
    /\ CanLock(vmu[loc[p].v])
    /\ vmu' = [vmu EXCEPT ![loc[p].v] = Locked(@, p)]
    /\ Goto(p, "Set_Write")
    /\ UNCHANGED <<trVars, vnic, loc, ops, netVars, obsVars>>

\* n.laddr = addr, n.mtu = mtu, n.closefunc = action
Set_Write(p) ==
    /\ pc[p] = "Set_Write"
    /\ vnic' = CASE loc[p].op = "SetLinkAddress" -> [vnic EXCEPT ![loc[p].v].laddr = loc[p].arg]
                 [] loc[p].op = "SetMTU" -> [vnic EXCEPT ![loc[p].v].mtu = loc[p].arg]
                 [] OTHER -> [vnic EXCEPT ![loc[p].v].closefunc = loc[p].arg]
    /\ Goto(p, "Set_Unlock")
    /\ UNCHANGED <<trVars, vmu, loc, ops, netVars, obsVars>>

Set_Unlock(p) ==
    /\ pc[p] = "Set_Unlock"
    /\ vmu' = [vmu EXCEPT ![loc[p].v] = WUnlocked(@, p)]
    /\ Goto(p, "done")
    /\ UNCHANGED <<trVars, vnic, loc, ops, netVars, obsVars>>

\* ------------------------------------------------ VNIC.LinkAddress, MTU

CallLinkAddress(p, v) ==
    /\ Begin(p)
    /\ Goto(p, "Get_RLock")
    /\ loc' = [loc EXCEPT ![p] = NewCall("LinkAddress", v)]
    /\ UNCHANGED <<trVars, vnic, vmu, netVars, obsVars>>

CallMTU(p, v) ==
    /\ Begin(p)
    /\ Goto(p, "Get_RLock")
    /\ loc' = [loc EXCEPT ![p] = NewCall("MTU", v)]
    /\ UNCHANGED <<trVars, vnic, vmu, netVars, obsVars>>

\* A getter that reads the field without taking the lock.
Get_RLock_None(p) ==
    /\ pc[p] = "Get_RLock"
    /\ Goto(p, "Get_Read")
    /\ loc' = [loc EXCEPT ![p].pre = vnic[loc[p].v]]
    /\ UNCHANGED <<trVars, vnic, vmu, ops, netVars, obsVars>>

\* n.mu.RLock() of the two getters; pre remembers the endpoint as found
Get_RLock(p) ==
    /\ pc[p] = "Get_RLock"
    /\ CanRLock(vmu[loc[p].v])
    /\ Goto(p, "Get_Read")
    /\ vmu' = [vmu EXCEPT ![loc[p].v] = RLocked(@, p)]
    /\ loc' = [loc EXCEPT ![p].pre = vnic[loc[p].v]]
    /\ UNCHANGED <<trVars, vnic, ops, netVars, obsVars>>

\* value := n.laddr, value := n.mtu
Get_Read(p) ==
    /\ pc[p] = "Get_Read"
    /\ Goto(p, "Get_RUnlock")
    /\ loc' = [loc EXCEPT ![p].ret = IF loc[p].op = "LinkAddress" THEN vnic[loc[p].v].laddr ELSE vnic[loc[p].v].mtu]
    /\ UNCHANGED <<trVars, vnic, vmu, ops, netVars, obsVars>>

\* n.mu.RUnlock(); return value
Get_RUnlock(p) ==
    /\ pc[p] = "Get_RUnlock"
    /\ Goto(p, "done")
    /\ vmu' = [vmu EXCEPT ![loc[p].v] = RUnlocked(@, p)]
    /\ UNCHANGED <<trVars, vnic, loc, ops, netVars, obsVars>>

\* ------------------------------------------- internetVNICNetwork.SendFrame

\* The history of the inflight channel of a new Internet.
NewTransit == [accepted |-> << >>, received |-> << >>]

\* The history after the SendFrame call that answered sent for frame: an
\* accepted frame is noted, and noted as received when the send handed
\* it to a blocked receiver.
TransitAfter(frame, sent) ==
    IF ~sent.ok THEN transit
    ELSE [accepted |-> Append(transit.accepted, frame),
          received |-> IF sent.to # NoProc THEN Append(transit.received, frame) ELSE transit.received]

\* select { case n.ix.inflight <- frame: return true; default: return false }
\* A send on a Go channel proceeds when a goroutine is blocked receiving from
\* it (the frame is handed to the longest-waiting receiver, named by "to")
\* or when the buffer has room; otherwise the default case is chosen.
SendFrame_OffByOne(frame) ==
    IF recvq # << >>
    THEN [ok |-> TRUE, inflight |-> inflight, recvq |-> Tail(recvq), to |-> Head(recvq)]
    ELSE IF Len(inflight) <= capacity
    THEN [ok |-> TRUE, inflight |-> Append(inflight, frame), recvq |-> recvq, to |-> NoProc]
    ELSE [ok |-> FALSE, inflight |-> inflight, recvq |-> recvq, to |-> NoProc]

\* A send that puts the frame ahead of the pending ones.
SendFrame_Prepend(frame) ==
    IF recvq # << >>
    THEN [ok |-> TRUE, inflight |-> inflight, recvq |-> Tail(recvq), to |-> Head(recvq)]
    ELSE IF Len(inflight) < capacity
    THEN [ok |-> TRUE, inflight |-> <<frame>> \o inflight, recvq |-> recvq, to |-> NoProc]
    ELSE [ok |-> FALSE, inflight |-> inflight, recvq |-> recvq, to |-> NoProc]

SendFrame(frame) ==
    IF recvq # << >>
    THEN [ok |-> TRUE, inflight |-> inflight, recvq |-> Tail(recvq), to |-> Head(recvq)]
    ELSE IF Len(inflight) < capacity
    THEN [ok |-> TRUE, inflight |-> Append(inflight, frame), recvq |-> recvq, to |-> NoProc]
    ELSE [ok |-> FALSE, inflight |-> inflight, recvq |-> recvq, to |-> NoProc]

\* ------------------------------------------------------- VNIC.WritePackets

\* vnicPacketBufferToBytes: a copy of the packet buffer's bytes.
vnicPacketBufferToBytes(pb) == SubSeq(pb, 1, Len(pb))

CallWritePackets(p, v, pkts) ==
    /\ Begin(p)
    /\ Goto(p, "WritePackets_RLock")
    /\ loc' = [loc EXCEPT ![p] = [NewCall("WritePackets", v) EXCEPT !.pkts = pkts]]
    /\ UNCHANGED <<trVars, vnic, vmu, netVars, obsVars>>

WritePackets_RLock(p) ==
    /\ pc[p] = "WritePackets_RLock"
    /\ CanRLock(vmu[loc[p].v])
    /\ Goto(p, "WritePackets_ReadNetwork")
    /\ vmu' = [vmu EXCEPT ![loc[p].v] = RLocked(@, p)]
    /\ loc' = [loc EXCEPT ![p].pre = vnic[loc[p].v]]
    /\ UNCHANGED <<trVars, vnic, ops, netVars, obsVars>>

\* network := n.network
WritePackets_ReadNetwork(p) ==
    /\ pc[p] = "WritePackets_ReadNetwork"
    /\ Goto(p, "WritePackets_ReadClosed")
    /\ loc' = [loc EXCEPT ![p].lNet = vnic[loc[p].v].network]
    /\ UNCHANGED <<trVars, vnic, vmu, ops, netVars, obsVars>>

\* isclosed := n.isclosed
WritePackets_ReadClosed(p) ==
    /\ pc[p] = "WritePackets_ReadClosed"
    /\ Goto(p, "WritePackets_ReadMtu")
    /\ loc' = [loc EXCEPT ![p].lClosed = vnic[loc[p].v].isclosed]
    /\ UNCHANGED <<trVars, vnic, vmu, ops, netVars, obsVars>>

\* mtu := n.mtu
WritePackets_ReadMtu(p) ==
    /\ pc[p] = "WritePackets_ReadMtu"
    /\ Goto(p, "WritePackets_RUnlock")
    /\ loc' = [loc EXCEPT ![p].lMtu = vnic[loc[p].v].mtu]
    /\ UNCHANGED <<trVars, vnic, vmu, ops, netVars, obsVars>>

\* A WritePackets that bails only when there is no network.
WritePackets_RUnlock_IgnoreClosed(p) ==
    /\ pc[p] = "WritePackets_RUnlock"
    /\ vmu' = [vmu EXCEPT ![loc[p].v] = RUnlocked(@, p)]
    /\ IF loc[p].lNet = NoNet
       THEN /\ loc' = [loc EXCEPT ![p].ret = [n |-> 0, err |-> "nil"]]
            /\ Goto(p, "done")
       ELSE /\ loc' = [loc EXCEPT ![p].i = 1]
            /\ Goto(p, "WritePackets_Loop")
    /\ UNCHANGED <<trVars, vnic, ops, routes, ixmu, inflight, capacity, recvq, obsVars>>

\* n.mu.RUnlock(), then step 2: bail if closed or there is no network
WritePackets_RUnlock(p) ==
    /\ pc[p] = "WritePackets_RUnlock"
    /\ vmu' = [vmu EXCEPT ![loc[p].v] = RUnlocked(@, p)]
    /\ IF loc[p].lClosed \/ loc[p].lNet = NoNet
       THEN /\ Goto(p, "done")
            /\ loc' = [loc EXCEPT ![p].ret = [n |-> 0, err |-> "nil"]]
       ELSE /\ Goto(p, "WritePackets_Loop")
            /\ loc' = [loc EXCEPT ![p].i = 1]
    /\ UNCHANGED <<trVars, vnic, ops, routes, ixmu, inflight, capacity, recvq, obsVars>>

\* A loop that gives up at the first frame the network refuses.
WritePackets_Loop_StopOnRefusal(p) ==
    /\ pc[p] = "WritePackets_Loop"
    /\ loc[p].i <= Len(loc[p].pkts)
    /\ LET payload == vnicPacketBufferToBytes(loc[p].pkts[loc[p].i])
           sent == SendFrame(payload)
           call == [pkt |-> payload, ok |-> sent.ok, before |-> inflight, after |-> sent.inflight, waiting |-> recvq # << >>, to |-> sent.to]
       IN IF Len(payload) <= 0 \/ ToUint32(Len(payload)) > loc[p].lMtu
          THEN /\ loc' = [loc EXCEPT ![p].i = @ + 1]
               /\ UNCHANGED <<pc, inflight, recvq, transit>>
          ELSE /\ inflight' = sent.inflight
               /\ recvq' = sent.recvq
               /\ transit' = TransitAfter(payload, sent)
               /\ loc' = [q \in Procs |->
                            IF q = p THEN [loc[p] EXCEPT !.i = IF sent.ok THEN @ + 1 ELSE Len(loc[p].pkts) + 1, !.num = IF sent.ok THEN @ + 1 ELSE @, !.log = Append(@, call)]
                            ELSE IF q = sent.to THEN [loc[q] EXCEPT !.pkt = payload, !.ret = "frame"]
                            ELSE loc[q]]
               /\ pc' = [q \in Procs |-> IF q = sent.to /\ q # p THEN "done" ELSE pc[q]]
    /\ UNCHANGED <<trVars, vnic, vmu, ops, routes, ixmu, capacity, delivered, hookLog, closedWith>>

\* One iteration of step 3.  log records the SendFrame calls made: the
\* frame, the answer, the buffered frames before and after the call and
\* whether a consumer was blocked receiving.
WritePackets_Loop(p) ==
    /\ pc[p] = "WritePackets_Loop"
    /\ loc[p].i <= Len(loc[p].pkts)
    /\ LET payload == vnicPacketBufferToBytes(loc[p].pkts[loc[p].i])
           sent == SendFrame(payload)
           call == [pkt |-> payload, ok |-> sent.ok, before |-> inflight, after |-> sent.inflight, waiting |-> recvq # << >>, to |-> sent.to]
       IN IF Len(payload) <= 0 \/ ToUint32(Len(payload)) > loc[p].lMtu
          THEN /\ UNCHANGED <<pc, inflight, recvq, transit>>
               /\ loc' = [loc EXCEPT ![p].i = @ + 1]
          ELSE /\ inflight' = sent.inflight
               /\ recvq' = sent.recvq
               /\ transit' = TransitAfter(payload, sent)
               /\ pc' = [q \in Procs |-> IF q = sent.to /\ q # p THEN "done" ELSE pc[q]]
               /\ loc' = [q \in Procs |->
                            IF q = p THEN [loc[p] EXCEPT !.i = @ + 1, !.num = IF sent.ok THEN @ + 1 ELSE @, !.log = Append(@, call)]
                            ELSE IF q = sent.to THEN [loc[q] EXCEPT !.pkt = payload, !.ret = "frame"]
                            ELSE loc[q]]
    /\ UNCHANGED <<trVars, vnic, vmu, ops, routes, ixmu, capacity, delivered, hookLog, closedWith>>

\* step 4: return numSent, nil
WritePackets_Return(p) ==
    /\ pc[p] = "WritePackets_Loop"
    /\ loc[p].i > Len(loc[p].pkts)
    /\ Goto(p, "done")
    /\ loc' = [loc EXCEPT ![p].ret = [n |-> loc[p].num, err |-> "nil"]]
    /\ UNCHANGED <<trVars, vnic, vmu, ops, netVars, obsVars>>

\* -------------------------------------------------------- VNIC.InjectFrame

\* pkt[0] >> 4 selects the protocol; anything but 4 and 6 is unknown.
vnicDetectNetworkProtocol(pkt) ==
    CASE pkt[1] \div 16 = 4 -> [proto |-> "ipv4.ProtocolNumber", ok |-> TRUE]
      [] pkt[1] \div 16 = 6 -> [proto |-> "ipv6.ProtocolNumber", ok |-> TRUE]
      [] OTHER -> [proto |-> "0", ok |-> FALSE]

\* The bytes a dispatcher holds for one delivered packet buffer: its own
\* storage, or the caller's buffer when the two share a backing array.
DeliveredBytes(e) == IF e.alias = NoProc THEN e.data ELSE loc[e.alias].pkt

\* InjectFrame returns to its caller: to the goroutine that called it, or
\* to Deliver, which returns the value in turn.
InjectReturns(p, value) == IF loc[p].op = "Deliver" THEN [loc[p] EXCEPT !.injRet = value] ELSE [loc[p] EXCEPT !.ret = value]

AfterInject(p) == IF loc[p].op = "Deliver" THEN "Deliver_Return" ELSE "done"

CallInjectFrame(p, v, pkt) ==
    /\ Begin(p)
    /\ Goto(p, "Inject_Enter")
    /\ loc' = [loc EXCEPT ![p] = [NewCall("InjectFrame", v) EXCEPT !.pkt = pkt, !.pkts = <<pkt>>]]
    /\ UNCHANGED <<trVars, vnic, vmu, netVars, obsVars>>

\* steps 1 and 2: drop zero-length frames and unknown protocols
Inject_Enter(p) ==
    /\ pc[p] = "Inject_Enter"
    /\ IF Len(loc[p].pkt) <= 0
       THEN /\ Goto(p, AfterInject(p))
            /\ loc' = [loc EXCEPT ![p] = InjectReturns(p, FALSE), ![p].log = Append(@, loc[p].v)]
       ELSE IF ~vnicDetectNetworkProtocol(loc[p].pkt).ok
       THEN /\ Goto(p, AfterInject(p))
            /\ loc' = [loc EXCEPT ![p] = InjectReturns(p, FALSE), ![p].log = Append(@, loc[p].v)]
       ELSE /\ Goto(p, "Inject_RLock")
            /\ loc' = [loc EXCEPT ![p].arg = vnicDetectNetworkProtocol(loc[p].pkt).proto, ![p].log = Append(@, loc[p].v)]
    /\ UNCHANGED <<trVars, vnic, vmu, ops, netVars, obsVars>>

Inject_RLock(p) ==
    /\ pc[p] = "Inject_RLock"
    /\ CanRLock(vmu[loc[p].v])
    /\ Goto(p, "Inject_ReadDisp")
    /\ vmu' = [vmu EXCEPT ![loc[p].v] = RLocked(@, p)]
    /\ loc' = [loc EXCEPT ![p].pre = vnic[loc[p].v]]
    /\ UNCHANGED <<trVars, vnic, ops, netVars, obsVars>>

\* disp := n.disp
Inject_ReadDisp(p) ==
    /\ pc[p] = "Inject_ReadDisp"
    /\ Goto(p, "Inject_ReadClosed")
    /\ loc' = [loc EXCEPT ![p].lDisp = vnic[loc[p].v].disp]
    /\ UNCHANGED <<trVars, vnic, vmu, ops, netVars, obsVars>>

\* isclosed := n.isclosed
Inject_ReadClosed(p) ==
    /\ pc[p] = "Inject_ReadClosed"
    /\ Goto(p, "Inject_ReadMtu")
    /\ loc' = [loc EXCEPT ![p].lClosed = vnic[loc[p].v].isclosed]
    /\ UNCHANGED <<trVars, vnic, vmu, ops, netVars, obsVars>>

\* An InjectFrame that applies the MTU of the endpoint the internet was
\* first given a route for, whichever endpoint it is called on.
Inject_ReadMtu_Sender(p) ==
    /\ pc[p] = "Inject_ReadMtu"
    /\ Goto(p, "Inject_RUnlock")
    /\ loc' = [loc EXCEPT ![p].lMtu = vnic["e1"].mtu]
    /\ UNCHANGED <<trVars, vnic, vmu, ops, netVars, obsVars>>

\* mtu := n.mtu
Inject_ReadMtu(p) ==
    /\ pc[p] = "Inject_ReadMtu"
    /\ Goto(p, "Inject_RUnlock")
    /\ loc' = [loc EXCEPT ![p].lMtu = vnic[loc[p].v].mtu]
    /\ UNCHANGED <<trVars, vnic, vmu, ops, netVars, obsVars>>

Inject_RUnlock(p) ==
    /\ pc[p] = "Inject_RUnlock"
    /\ Goto(p, "Inject_Deliver")
    /\ vmu' = [vmu EXCEPT ![loc[p].v] = RUnlocked(@, p)]
    /\ UNCHANGED <<trVars, vnic, loc, ops, netVars, obsVars>>

\* steps 4 and 5: deliver only when open, attached and within the MTU
InjectAccepts_NoMTUCheck(p) == ~(loc[p].lClosed \/ loc[p].lDisp = NoDisp)

InjectAccepts(p) == ~(loc[p].lClosed \/ loc[p].lDisp = NoDisp) /\ ~(ToUint32(Len(loc[p].pkt)) > loc[p].lMtu)

\* The packet buffer that shares the caller's backing array.
InjectPacketBuffer_NoCopy(p) == [proto |-> loc[p].arg, data |-> loc[p].pkt, alias |-> p]

\* step 6: copied := make([]byte, len(pkt)); copy(copied, pkt); the packet
\* buffer handed to the dispatcher is built over the copy.
InjectPacketBuffer(p) ==
    LET copied == SubSeq(loc[p].pkt, 1, Len(loc[p].pkt))
    IN [proto |-> loc[p].arg, data |-> copied, alias |-> NoProc]

\* steps 4 to 6; num counts the DeliverNetworkPacket calls of this
\* InjectFrame and i is the position of its packet among those the
\* dispatcher got.
Inject_Deliver(p) ==
    /\ pc[p] = "Inject_Deliver"
    /\ Goto(p, AfterInject(p))
    /\ IF ~InjectAccepts(p)
       THEN /\ loc' = [loc EXCEPT ![p] = InjectReturns(p, FALSE)]
            /\ UNCHANGED delivered
       ELSE /\ delivered' = [delivered EXCEPT ![loc[p].lDisp] = Append(@, InjectPacketBuffer(p))]
            /\ loc' = [loc EXCEPT ![p] = InjectReturns(p, TRUE), ![p].num = @ + 1, ![p].i = Len(delivered[loc[p].lDisp]) + 1]
    /\ UNCHANGED <<trVars, vnic, vmu, ops, netVars, hookLog, closedWith, transit>>

\* --------------------------------------------------------------- the caller

\* The caller reuses the buffer it passed to InjectFrame or Deliver: it
\* overwrites the last byte once the call has returned.
Overwritten(pkt) == [pkt EXCEPT ![Len(pkt)] = 255 - @]

MutateBuffer(p) ==
    /\ pc[p] = "done"
    /\ loc[p].op \in {"InjectFrame", "Deliver"}
    /\ loc[p].pkt # << >>
    /\ loc' = [loc EXCEPT ![p].pkt = Overwritten(@)]
    /\ UNCHANGED <<trVars, vnic, vmu, pc, ops, netVars, obsVars>>

\* The caller takes the result and drops its buffer: what a dispatcher
\* shares with that buffer keeps the bytes the buffer holds now.
RECURSIVE Settle(_, _)
Settle(entries, p) ==
    IF entries = << >> THEN << >>
    ELSE LET e == Head(entries)
         IN <<IF e.alias = p THEN [e EXCEPT !.data = loc[p].pkt, !.alias = NoProc] ELSE e>> \o Settle(Tail(entries), p)

Return(p) ==
    /\ pc[p] = "done"
    /\ Goto(p, "idle")
    /\ loc' = [loc EXCEPT ![p] = IdleLoc]
    /\ delivered' = [d \in Dispatchers |-> Settle(delivered[d], p)]
    /\ UNCHANGED <<trVars, vnic, vmu, ops, netVars, hookLog, closedWith, transit>>


\* ------------------------------------------------------- Internet.AddRoute

NewInternetRoutes == [a \in {} |-> "e1"]

CallAddRoute(p, v, addrs) ==
    /\ Begin(p)
    /\ Goto(p, "AddRoute_Lock")
    /\ loc' = [loc EXCEPT ![p] = [NewCall("AddRoute", v) EXCEPT !.pkts = addrs, !.i = 1]]
    /\ UNCHANGED <<trVars, vnic, vmu, netVars, obsVars>>

\* An AddRoute that does not lock the table.
AddRoute_Lock_None(p) ==
    /\ pc[p] = "AddRoute_Lock"
    /\ loc' = [loc EXCEPT ![p].tbl = routes]
    /\ Goto(p, "AddRoute_Loop")
    /\ UNCHANGED <<trVars, vnic, vmu, ops, netVars, obsVars>>

\* ix.mu.Lock(); tbl remembers the table the call found
AddRoute_Lock(p) ==
    /\ pc[p] = "AddRoute_Lock"
    /\ CanLock(ixmu)
    /\ ixmu' = Locked(ixmu, p)
    /\ loc' = [loc EXCEPT ![p].tbl = routes]
    /\ Goto(p, "AddRoute_Loop")
    /\ UNCHANGED <<trVars, vnic, vmu, ops, routes, inflight, capacity, recvq, obsVars>>

\* An AddRoute that lets an endpoint claim again an address it holds.
AddRoute_Loop_SameOwnerAllowed(p) ==
    /\ pc[p] = "AddRoute_Loop"
    /\ loc[p].i <= Len(loc[p].pkts)
    /\ LET addr == loc[p].pkts[loc[p].i]
       IN IF addr \in DOMAIN routes /\ routes[addr] # loc[p].v
          THEN /\ loc' = [loc EXCEPT ![p].ret = [err |-> "duplicate address detected", addr |-> addr]]
               /\ Goto(p, "AddRoute_Unlock")
               /\ UNCHANGED routes
          ELSE /\ routes' = [a \in DOMAIN routes \cup {addr} |-> IF a = addr THEN loc[p].v ELSE routes[a]]
               /\ loc' = [loc EXCEPT ![p].i = @ + 1]
               /\ UNCHANGED pc
    /\ UNCHANGED <<trVars, vnic, vmu, ops, ixmu, inflight, capacity, recvq, obsVars>>

\* An AddRoute that reports the duplicate after binding the addresses that follow it.
AddRoute_Loop_KeepGoing(p) ==
    /\ pc[p] = "AddRoute_Loop"
    /\ loc[p].i <= Len(loc[p].pkts)
    /\ LET addr == loc[p].pkts[loc[p].i]
       IN IF addr \in DOMAIN routes
          THEN /\ loc' = [loc EXCEPT ![p].ret = [err |-> "duplicate address detected", addr |-> addr]]
               /\ Goto(p, "AddRoute_Unlock")
               /\ routes' = LET rest == {loc[p].pkts[j] : j \in (loc[p].i + 1)..Len(loc[p].pkts)} \ DOMAIN routes
                             IN [a \in DOMAIN routes \cup rest |-> IF a \in rest THEN loc[p].v ELSE routes[a]]
          ELSE /\ routes' = [a \in DOMAIN routes \cup {addr} |-> IF a = addr THEN loc[p].v ELSE routes[a]]
               /\ loc' = [loc EXCEPT ![p].i = @ + 1]
               /\ UNCHANGED pc
    /\ UNCHANGED <<trVars, vnic, vmu, ops, ixmu, inflight, capacity, recvq, obsVars>>

\* An AddRoute that gives a taken address to the endpoint asking for it.
AddRoute_Loop_Rebind(p) ==
    /\ pc[p] = "AddRoute_Loop"
    /\ loc[p].i <= Len(loc[p].pkts)
    /\ LET addr == loc[p].pkts[loc[p].i]
       IN /\ routes' = [a \in DOMAIN routes \cup {addr} |-> IF a = addr THEN loc[p].v ELSE routes[a]]
          /\ loc' = [loc EXCEPT ![p].i = @ + 1]
          /\ UNCHANGED pc
    /\ UNCHANGED <<trVars, vnic, vmu, ops, ixmu, inflight, capacity, recvq, obsVars>>

\* one iteration of: for _, addr := range addrs
AddRoute_Loop(p) ==
    /\ pc[p] = "AddRoute_Loop"
    /\ loc[p].i <= Len(loc[p].pkts)
    /\ LET addr == loc[p].pkts[loc[p].i]
       IN IF addr \in DOMAIN routes
          THEN /\ loc' = [loc EXCEPT ![p].ret = [err |-> "duplicate address detected", addr |-> addr]]
               /\ Goto(p, "AddRoute_Unlock")
               /\ UNCHANGED routes
          ELSE /\ routes' = [a \in DOMAIN routes \cup {addr} |-> IF a = addr THEN loc[p].v ELSE routes[a]]
               /\ loc' = [loc EXCEPT ![p].i = @ + 1]
               /\ UNCHANGED pc
    /\ UNCHANGED <<trVars, vnic, vmu, ops, ixmu, inflight, capacity, recvq, obsVars>>

\* return nil
AddRoute_Return(p) ==
    /\ pc[p] = "AddRoute_Loop"
    /\ loc[p].i > Len(loc[p].pkts)
    /\ loc' = [loc EXCEPT ![p].ret = [err |-> "nil", addr |-> << >>]]
    /\ Goto(p, "AddRoute_Unlock")
    /\ UNCHANGED <<trVars, vnic, vmu, ops, netVars, obsVars>>

\* AddRoute returns to its caller: to NewStack when NewStack made the call.
AfterAddRoute(p) == IF loc[p].op = "NewStack" THEN "NewStack_Return" ELSE "done"

\* defer ix.mu.Unlock()
AddRoute_Unlock(p) ==
    /\ pc[p] = "AddRoute_Unlock"
    /\ ixmu' = WUnlocked(ixmu, p)
    /\ Goto(p, AfterAddRoute(p))
    /\ UNCHANGED <<trVars, vnic, vmu, loc, ops, routes, inflight, capacity, recvq, obsVars>>

\* ------------------------------------------------------- Internet.NewStack

\* A place of the heap where no VNIC has been allocated yet.
NoVNIC == NewVNIC(0, NoNet)

\* The place the next allocation of a VNIC takes.
NextVNIC == IF vnic["e1"] = NoVNIC THEN "e1" ELSE "e2"

\* vnic := ix.NewVNIC(mtu); stack := NewStack(vnic, addrs...): the new
\* endpoint reports to the Internet, and the stack built on it attaches
\* its dispatcher (nsp.CreateNIC).  Nobody else holds the endpoint yet.
\* Then ix.AddRoute(vnic, addrs...) is called.
CallNewStack(p, mtu, addrs) ==
    /\ Begin(p)
    /\ vnic[NextVNIC] = NoVNIC
    /\ vnic' = [vnic EXCEPT ![NextVNIC] = [NewVNIC(mtu, "ix") EXCEPT !.disp = DispOf(NextVNIC)]]
    /\ loc' = [loc EXCEPT ![p] = [NewCall("NewStack", NextVNIC) EXCEPT !.pkts = addrs, !.i = 1]]
    /\ Goto(p, "AddRoute_Lock")
    /\ UNCHANGED <<trVars, vmu, netVars, obsVars>>

\* if err := ix.AddRoute(vnic, addrs...); err != nil { return nil, err }
\* return stack, nil
NewStack_Return(p) ==
    /\ pc[p] = "NewStack_Return"
    /\ loc' = [loc EXCEPT ![p].arg = IF loc[p].ret.err # "nil" THEN "nil" ELSE loc[p].v]
    /\ Goto(p, "done")
    /\ UNCHANGED <<trVars, vnic, vmu, ops, netVars, obsVars>>

\* -------------------------------------------------------- Internet.Deliver

\* netip.AddrFromSlice: a 4-byte slice is an IPv4 address, a 16-byte slice
\* an IPv6 address, anything else is no address.
AddrFromSlice(slice) == IF Len(slice) \in {4, 16} THEN [addr |-> slice, ok |-> TRUE] ELSE [addr |-> << >>, ok |-> FALSE]

\* A parser that takes the source address field for the destination.
internetParseDestinationIP_Source(pkt) ==
    IF Len(pkt) < 1 THEN [addr |-> << >>, ok |-> FALSE]
    ELSE CASE pkt[1] \div 16 = 4 -> IF Len(pkt) < 20 THEN [addr |-> << >>, ok |-> FALSE] ELSE AddrFromSlice(SubSeq(pkt, 13, 16))
           [] pkt[1] \div 16 = 6 -> IF Len(pkt) < 40 THEN [addr |-> << >>, ok |-> FALSE] ELSE AddrFromSlice(SubSeq(pkt, 9, 24))
           [] OTHER -> [addr |-> << >>, ok |-> FALSE]

\* A parser that reads any other version as IPv4.
internetParseDestinationIP_AnyVersion(pkt) ==
    IF Len(pkt) < 1 THEN [addr |-> << >>, ok |-> FALSE]
    ELSE CASE pkt[1] \div 16 = 6 -> IF Len(pkt) < 40 THEN [addr |-> << >>, ok |-> FALSE] ELSE AddrFromSlice(SubSeq(pkt, 25, 40))
           [] OTHER -> IF Len(pkt) < 20 THEN [addr |-> << >>, ok |-> FALSE] ELSE AddrFromSlice(SubSeq(pkt, 17, 20))

internetParseDestinationIP(pkt) ==
    IF Len(pkt) < 1 THEN [addr |-> << >>, ok |-> FALSE]
    ELSE CASE pkt[1] \div 16 = 4 -> IF Len(pkt) < 20 THEN [addr |-> << >>, ok |-> FALSE] ELSE AddrFromSlice(SubSeq(pkt, 17, 20))
           [] pkt[1] \div 16 = 6 -> IF Len(pkt) < 40 THEN [addr |-> << >>, ok |-> FALSE] ELSE AddrFromSlice(SubSeq(pkt, 25, 40))
           [] OTHER -> [addr |-> << >>, ok |-> FALSE]

CallDeliver(p, pkt) ==
    /\ Begin(p)
    /\ Goto(p, "Deliver_Parse")
    /\ loc' = [loc EXCEPT ![p] = [NewCall("Deliver", "none") EXCEPT !.pkt = pkt, !.pkts = <<pkt>>]]
    /\ UNCHANGED <<trVars, vnic, vmu, netVars, obsVars>>

\* dstIP, ok := internetParseDestinationIP(frame.Packet)
Deliver_Parse(p) ==
    /\ pc[p] = "Deliver_Parse"
    /\ LET parsed == internetParseDestinationIP(loc[p].pkt)
       IN IF ~parsed.ok
          THEN /\ Goto(p, "done")
               /\ loc' = [loc EXCEPT ![p].ret = FALSE]
          ELSE /\ Goto(p, "Deliver_RLock")
               /\ loc' = [loc EXCEPT ![p].dst = parsed.addr]
    /\ UNCHANGED <<trVars, vnic, vmu, ops, netVars, obsVars>>

Deliver_RLock(p) ==
    /\ pc[p] = "Deliver_RLock"
    /\ CanRLock(ixmu)
    /\ Goto(p, "Deliver_Lookup")
    /\ ixmu' = RLocked(ixmu, p)
    /\ UNCHANGED <<trVars, vnic, vmu, loc, ops, routes, inflight, capacity, recvq, obsVars>>

\* nic := ix.routes[dstIP]; tbl remembers the table that was looked up
Deliver_Lookup(p) ==
    /\ pc[p] = "Deliver_Lookup"
    /\ Goto(p, "Deliver_RUnlock")
    /\ loc' = [loc EXCEPT ![p].v = IF loc[p].dst \in DOMAIN routes THEN routes[loc[p].dst] ELSE "nil", ![p].tbl = routes]
    /\ UNCHANGED <<trVars, vnic, vmu, ops, netVars, obsVars>>

\* ix.mu.RUnlock(); if nic == nil { return false }; return nic.InjectFrame(frame)
Deliver_RUnlock(p) ==
    /\ pc[p] = "Deliver_RUnlock"
    /\ ixmu' = RUnlocked(ixmu, p)
    /\ IF loc[p].v = "nil"
       THEN /\ Goto(p, "done")
            /\ loc' = [loc EXCEPT ![p].ret = FALSE]
       ELSE /\ Goto(p, "Inject_Enter")
            /\ UNCHANGED loc
    /\ UNCHANGED <<trVars, vnic, vmu, ops, routes, inflight, capacity, recvq, obsVars>>

\* A Deliver that reports success whatever InjectFrame answered.
Deliver_Return_True(p) ==
    /\ pc[p] = "Deliver_Return"
    /\ loc' = [loc EXCEPT ![p].ret = TRUE]
    /\ Goto(p, "done")
    /\ UNCHANGED <<trVars, vnic, vmu, ops, netVars, obsVars>>

\* A Deliver that takes the oldest pending frame off the transit queue.
Deliver_Return_Drain(p) ==
    /\ pc[p] = "Deliver_Return"
    /\ Goto(p, "done")
    /\ loc' = [loc EXCEPT ![p].ret = loc[p].injRet]
    /\ inflight' = IF inflight = << >> THEN inflight ELSE Tail(inflight)
    /\ UNCHANGED <<trVars, vnic, vmu, ops, routes, ixmu, capacity, recvq, obsVars>>

\* return nic.InjectFrame(frame)
Deliver_Return(p) ==
    /\ pc[p] = "Deliver_Return"
    /\ Goto(p, "done")
    /\ loc' = [loc EXCEPT ![p].ret = loc[p].injRet]
    /\ UNCHANGED <<trVars, vnic, vmu, ops, netVars, obsVars>>

\* -------------------------------------------------------------- errorsRemap

\* An error value: its text (err.Error()) and, for the errors of the
\* standard library, which one it is.  NilError is the nil error.
NilError == [text |-> << >>, errno |-> "nil"]

EngineError(text) == [text |-> text, errno |-> "none"]

StdlibError(name) == [text |-> << >>, errno |-> name]

\* var errorsMap = map[string]error{...}
errorsMap ==
    {
     \* "endpoint is closed for receive"
     [suffix |-> <<"e", "n", "d", "p", "o", "i", "n", "t", " ", "i", "s", " ", "c", "l", "o", "s", "e", "d", " ", "f", "o", "r", " ", "r", "e", "c", "e", "i", "v", "e">>, remapped |-> StdlibError("net.ErrClosed")],
     \* "endpoint is closed for send"
     [suffix |-> <<"e", "n", "d", "p", "o", "i", "n", "t", " ", "i", "s", " ", "c", "l", "o", "s", "e", "d", " ", "f", "o", "r", " ", "s", "e", "n", "d">>, remapped |-> StdlibError("net.ErrClosed")],
     \* "connection aborted"
     [suffix |-> <<"c", "o", "n", "n", "e", "c", "t", "i", "o", "n", " ", "a", "b", "o", "r", "t", "e", "d">>, remapped |-> StdlibError("ECONNABORTED")],
     \* "connection was refused"
     [suffix |-> <<"c", "o", "n", "n", "e", "c", "t", "i", "o", "n", " ", "w", "a", "s", " ", "r", "e", "f", "u", "s", "e", "d">>, remapped |-> StdlibError("ECONNREFUSED")],
     \* "connection reset by peer"
     [suffix |-> <<"c", "o", "n", "n", "e", "c", "t", "i", "o", "n", " ", "r", "e", "s", "e", "t", " ", "b", "y", " ", "p", "e", "e", "r">>, remapped |-> StdlibError("ECONNRESET")],
     \* "network is unreachable"
     [suffix |-> <<"n", "e", "t", "w", "o", "r", "k", " ", "i", "s", " ", "u", "n", "r", "e", "a", "c", "h", "a", "b", "l", "e">>, remapped |-> StdlibError("ENETUNREACH")],
     \* "no route to host"
     [suffix |-> <<"n", "o", " ", "r", "o", "u", "t", "e", " ", "t", "o", " ", "h", "o", "s", "t">>, remapped |-> StdlibError("EHOSTUNREACH")],
     \* "host is down"
     [suffix |-> <<"h", "o", "s", "t", " ", "i", "s", " ", "d", "o", "w", "n">>, remapped |-> StdlibError("EHOSTDOWN")],
     \* "machine is not on the network"
     [suffix |-> <<"m", "a", "c", "h", "i", "n", "e", " ", "i", "s", " ", "n", "o", "t", " ", "o", "n", " ", "t", "h", "e", " ", "n", "e", "t", "w", "o", "r", "k">>, remapped |-> StdlibError("ENETDOWN")],
     \* "operation timed out"
     [suffix |-> <<"o", "p", "e", "r", "a", "t", "i", "o", "n", " ", "t", "i", "m", "e", "d", " ", "o", "u", "t">>, remapped |-> StdlibError("ETIMEDOUT")],
     \* "endpoint is in invalid state"
     [suffix |-> <<"e", "n", "d", "p", "o", "i", "n", "t", " ", "i", "s", " ", "i", "n", " ", "i", "n", "v", "a", "l", "i", "d", " ", "s", "t", "a", "t", "e">>, remapped |-> StdlibError("EINVAL")]
    }

\* strings.HasPrefix(str, prefix)
HasPrefix(str, prefix) == Len(str) >= Len(prefix) /\ SubSeq(str, 1, Len(prefix)) = prefix

\* strings.HasSuffix(str, suffix)
HasSuffix(str, suffix) == Len(str) >= Len(suffix) /\ SubSeq(str, Len(str) - Len(suffix) + 1, Len(str)) = suffix

\* A test that only takes the whole text of the error.
errorsMatch_Equal(estring, suffix) == estring = suffix

\* The test errorsRemap applies to an entry of the map.
errorsMatch(estring, suffix) == HasSuffix(estring, suffix)

\* The errors errorsRemap(err) can return: the range over the map visits
\* the entries in any order and returns at the first that matches.
errorsRemapResults(err) ==
    IF err = NilError THEN {err}
    ELSE LET matching == {e \in errorsMap : errorsMatch(err.text, e.suffix)}
         IN IF matching = {} THEN {err} ELSE {e.remapped : e \in matching}

CallErrorsRemap(p, err) ==
    /\ Begin(p)
    /\ Goto(p, "errorsRemap")
    /\ loc' = [loc EXCEPT ![p] = [NewCall("errorsRemap", "none") EXCEPT !.pre = err]]
    /\ UNCHANGED <<trVars, vnic, vmu, netVars, obsVars>>

errorsRemap(p) ==
    /\ pc[p] = "errorsRemap"
    /\ Goto(p, "done")
    /\ \E result \in errorsRemapResults(loc[p].pre) : loc' = [loc EXCEPT ![p].ret = result]
    /\ UNCHANGED <<trVars, vnic, vmu, ops, netVars, obsVars>>

\* ------------------------------------------ Connector and ListenConfig

\* An address string is the sequence of its characters.
DecDigits == <<"0", "1", "2", "3", "4", "5", "6", "7", "8", "9">>

HexLetters == {"a", "b", "c", "d", "e", "f"}

IsDigit(c) == \E d \in 1..10 : DecDigits[d] = c

DigitValue(c) == (CHOOSE d \in 1..10 : DecDigits[d] = c) - 1

\* strings.LastIndexByte, 1-based; 0 when c does not occur.
RECURSIVE LastIndex(_, _)
LastIndex(str, c) ==
    IF str = << >> THEN 0
    ELSE IF str[Len(str)] = c THEN Len(str)
    ELSE LastIndex(SubSeq(str, 1, Len(str) - 1), c)

\* The fields of str between the occurrences of sep.
RECURSIVE Fields(_, _)
Fields(str, sep) ==
    LET i == LastIndex(str, sep)
    IN IF i = 0 THEN <<str>>
       ELSE Append(Fields(SubSeq(str, 1, i - 1), sep), SubSeq(str, i + 1, Len(str)))

RECURSIVE Decimal(_)
Decimal(str) == IF str = << >> THEN 0 ELSE 10 * Decimal(SubSeq(str, 1, Len(str) - 1)) + DigitValue(str[Len(str)])

AllDigits(str) == str # << >> /\ \A k \in 1..Len(str) : IsDigit(str[k])

\* strconv.ParseUint(port, 10, 16) succeeds.
ParsePort(port) == AllDigits(port) /\ Len(port) <= 6 /\ Decimal(port) <= 65535

\* netip's parseIPv4 succeeds: four decimal fields of at most three
\* digits, none above 255, none with a leading zero.
ParseIPv4(ip) ==
    LET fs == Fields(ip, ".")
    IN /\ Len(fs) = 4
       /\ \A k \in 1..4 :
            /\ AllDigits(fs[k])
            /\ Len(fs[k]) <= 3
            /\ Decimal(fs[k]) <= 255
            /\ Len(fs[k]) > 1 => fs[k][1] # "0"

\* netip's parseIPv6 succeeds, for addresses without zone and without an
\* embedded IPv4 part: up to eight fields of one to four hexadecimal
\* digits, exactly eight unless one "::" stands for the missing ones.
ParseIPv6(ip) ==
    LET fs == Fields(ip, ":")
        n == Len(fs)
        empties == {k \in 1..n : fs[k] = << >>}
        inner == {k \in empties : 1 < k /\ k < n}
    IN /\ \A k \in 1..Len(ip) : IsDigit(ip[k]) \/ ip[k] \in HexLetters \/ ip[k] = ":"
       /\ \A k \in 1..n : Len(fs[k]) <= 4
       /\ n >= 3
       /\ 1 \in empties => 2 \in empties
       /\ n \in empties => (n - 1) \in empties
       /\ IF empties = {} THEN n = 8
          ELSE /\ n <= 9
               /\ Cardinality(inner) = 1

\* netip.ParseAddr: the first '.' or ':' of the string selects the
\* parser; "4" or "6" is the family parsed, "err" a failure.
RECURSIVE ParseAddr(_, _)
ParseAddr(ip, k) ==
    IF k > Len(ip) THEN "err"
    ELSE IF ip[k] = "." THEN (IF ParseIPv4(ip) THEN "4" ELSE "err")
    ELSE IF ip[k] = ":" THEN (IF ParseIPv6(ip) THEN "6" ELSE "err")
    ELSE IF ip[k] = "%" THEN "err"
    ELSE ParseAddr(ip, k + 1)

\* netip.ParseAddrPort succeeds: the string splits at its last ':' into a
\* non-empty address and a non-empty port, square brackets enclose the
\* address if and only if it is IPv6, and both parts parse.
ParseAddrPort(address) ==
    LET i == LastIndex(address, ":")
        ip == SubSeq(address, 1, i - 1)
        port == SubSeq(address, i + 1, Len(address))
        v6 == ip # << >> /\ ip[1] = "["
        bare == IF v6 THEN SubSeq(ip, 2, Len(ip) - 1) ELSE ip
    IN /\ i # 0
       /\ ip # << >>
       /\ port # << >>
       /\ v6 => (Len(ip) >= 2 /\ ip[Len(ip)] = "]")
       /\ ParsePort(port)
       /\ ParseAddr(bare, 1) = (IF v6 THEN "6" ELSE "4")

\* A call of the adapter layer: arg is the network, pkt the address, log
\* the methods of the stack the call has invoked.
CallConnector(p, op, network, address) ==
    /\ Begin(p)
    /\ Goto(p, op)
    /\ loc' = [loc EXCEPT ![p] = [NewCall(op, "none") EXCEPT !.arg = network, !.pkt = address]]
    /\ UNCHANGED <<trVars, vnic, vmu, netVars, obsVars>>

\* return nil, err
ConnectorFails(p, err) ==
    /\ Goto(p, "done")
    /\ loc' = [loc EXCEPT ![p].ret = [conn |-> "nil", err |-> err]]

\* conn, err = c.stack.DialTCP(ctx, addrport) and the like: the stack
\* gives a connection or fails, and the failure is remapped.
ConnectorInvokes(p, method) ==
    /\ Goto(p, "done")
    /\ \E ok \in BOOLEAN :
        loc' = [loc EXCEPT ![p].log = Append(@, method),
                           ![p].ret = IF ok THEN [conn |-> method, err |-> "nil"] ELSE [conn |-> "nil", err |-> "remapped"]]

\* A DialContext that dials TCP on every network it does not know.
DialContext_AnyNetwork(p) ==
    /\ pc[p] = "DialContext"
    /\ IF ~ParseAddrPort(loc[p].pkt) THEN ConnectorFails(p, "parse")
       ELSE IF loc[p].arg = "udp" THEN ConnectorInvokes(p, "DialUDP")
       ELSE ConnectorInvokes(p, "DialTCP")
    /\ UNCHANGED <<trVars, vnic, vmu, ops, netVars, obsVars>>

\* Connector.DialContext
DialContext(p) ==
    /\ pc[p] = "DialContext"
    /\ IF ~ParseAddrPort(loc[p].pkt) THEN ConnectorFails(p, "parse")
       ELSE IF loc[p].arg = "tcp" THEN ConnectorInvokes(p, "DialTCP")
       ELSE IF loc[p].arg = "udp" THEN ConnectorInvokes(p, "DialUDP")
       ELSE ConnectorFails(p, "EPROTOTYPE")
    /\ UNCHANGED <<trVars, vnic, vmu, ops, netVars, obsVars>>

\* ListenConfig.ListenPacket
ListenPacket(p) ==
    /\ pc[p] = "ListenPacket"
    /\ IF loc[p].arg # "udp" THEN ConnectorFails(p, "EPROTOTYPE")
       ELSE IF ~ParseAddrPort(loc[p].pkt) THEN ConnectorFails(p, "parse")
       ELSE ConnectorInvokes(p, "ListenUDP")
    /\ UNCHANGED <<trVars, vnic, vmu, ops, netVars, obsVars>>

\* ListenConfig.Listen
Listen(p) ==
    /\ pc[p] = "Listen"
    /\ IF loc[p].arg # "tcp" THEN ConnectorFails(p, "EPROTOTYPE")
       ELSE IF ~ParseAddrPort(loc[p].pkt) THEN ConnectorFails(p, "parse")
       ELSE ConnectorInvokes(p, "ListenTCP")
    /\ UNCHANGED <<trVars, vnic, vmu, ops, netVars, obsVars>>

\* ------------------------------------------- a consumer of Internet.InFlight

CallRecv(p) ==
    /\ Begin(p)
    /\ Goto(p, "Recv_Chan")
    /\ loc' = [loc EXCEPT ![p] = NewCall("Recv", "none")]
    /\ UNCHANGED <<trVars, vnic, vmu, netVars, obsVars>>

\* pkt := <-internet.InFlight(): take the oldest buffered frame, or block
Recv_Chan(p) ==
    /\ pc[p] = "Recv_Chan"
    /\ IF inflight # << >>
       THEN /\ Goto(p, "done")
            /\ loc' = [loc EXCEPT ![p].pkt = Head(inflight), ![p].ret = "frame"]
            /\ inflight' = Tail(inflight)
            /\ transit' = [transit EXCEPT !.received = Append(@, Head(inflight))]
            /\ UNCHANGED recvq
       ELSE /\ Goto(p, "Recv_Blocked")
            /\ recvq' = Append(recvq, p)
            /\ UNCHANGED <<loc, inflight, transit>>
    /\ UNCHANGED <<trVars, vnic, vmu, ops, routes, ixmu, capacity, delivered, hookLog, closedWith>>

\* The select of the pump loop takes its other case (case <-stopped).
Recv_Stop(p) ==
    /\ pc[p] = "Recv_Blocked"
    /\ recvq' = SelectSeq(recvq, LAMBDA q : q # p)
    /\ loc' = [loc EXCEPT ![p].ret = "stopped"]
    /\ Goto(p, "done")
    /\ UNCHANGED <<trVars, vnic, vmu, ops, routes, ixmu, inflight, capacity, obsVars>>

\* ---------------------------------------------------------------- PCAPTrace

\* The repository holds two generations of the capture: PCAPTrace, whose
\* saveLoop reads through readOrDrain, and PcapTrace, whose saveLoop has
\* the two selects inline.  A trace is one or the other.
Impls == {"PCAPTrace", "PcapTrace"}

\* What the sink's Write and Close return.
WriteResults == {"nil", "writeErr"}

CloseResults == {"nil", "closeErr"}

NoSnap == [data |-> << >>, length |-> 0]

Min(a, b) == IF a <= b THEN a ELSE b

\* An option that stores whatever it is given.
PCAPTraceOptionBuffer_Unchecked(cfg, bufferSize) == bufferSize

\* if bufferSize > 0 { cfg.bufferSize = bufferSize }
PCAPTraceOptionBuffer(cfg, bufferSize) == IF bufferSize > 0 THEN bufferSize ELSE cfg

\* for _, opt := range options { opt(cfg) }
RECURSIVE ApplyOptions(_, _)
ApplyOptions(cfg, options) == IF options = << >> THEN cfg ELSE ApplyOptions(PCAPTraceOptionBuffer(cfg, Head(options)), Tail(options))

\* The struct NewPCAPTrace builds.  dumps, accepted, closeCalled and owed
\* are history: the Dump calls that returned, the snapshots Dump calls got
\* into the queue, in order, whether Close was called yet, and what had
\* been accepted when it was first called; options are the buffer sizes
\* of the options the constructor was given; overlap tells whether a Dump
\* was still "running" when Close was first called, or was "issued" after
\* that.
NewTrace(impl, snapSize, bufferSize) == [impl |-> impl, snapSize |-> snapSize, cap |-> bufferSize, snaps |-> << >>, dropped |-> 0, ctxDone |-> FALSE, errch |-> << >>, once |-> "fresh", dumps |-> 0, accepted |-> << >>, closeCalled |-> FALSE, owed |-> << >>, results |-> << >>, options |-> << >>, overlap |-> "none"]

NewPCAPTraceWith(snapSize, options) == [NewTrace("PCAPTrace", snapSize, ApplyOptions(DefaultBufferSize, options)) EXCEPT !.options = options]

NewPCAPTrace(snapSize, bufferSize) == NewPCAPTraceWith(snapSize, <<bufferSize>>)

NewPcapTrace(snapSize) == NewTrace("PcapTrace", snapSize, manyPackets)

\* go tr.saveLoop(ctx): the goroutine is about to write the file header.
NewSaveLoop == [pc |-> "header", snap |-> NoSnap, at |-> 0, err |-> "nil"]

\* A sink no call has reached.
NewSink == [log |-> << >>]

SinkCall(call, what, snap, err) == [call |-> call, what |-> what, snap |-> snap, err |-> err]

\* snapSize := min(len(packet), int(tr.snapSize)); packetSnap := make([]byte, snapSize);
\* copy(packetSnap, packet); pcapSnapshot{length: len(packet), data: packetSnap}
pcapSnapshotOf(packet, snapSize) == [data |-> SubSeq(packet, 1, Min(Len(packet), snapSize)), length |-> Len(packet)]

CallDump(p, packet) ==
    /\ Begin(p)
    /\ Goto(p, "Dump_Select")
    /\ loc' = [loc EXCEPT ![p] = [NewCall("Dump", "none") EXCEPT !.pkt = packet]]
    /\ tr' = IF tr.closeCalled THEN [tr EXCEPT !.overlap = "issued"] ELSE tr
    /\ UNCHANGED <<fabricVars, task, wc>>

\* A queue that takes one snapshot more than it was made for.
SnapsHasRoom_OffByOne == Len(tr.snaps) <= tr.cap

\* The send on tr.snaps finds room in the channel's buffer.
SnapsHasRoom == Len(tr.snaps) < tr.cap

\* The send on tr.snaps finds saveLoop blocked in its select: a goroutine
\* the cancelled context has already woken is no longer receiving.
SaveLoopReceiving == task.pc = "parked" /\ ~tr.ctxDone

\* A Dump whose send waits for room in the queue.
Dump_Select_Blocking(p) ==
    /\ pc[p] = "Dump_Select"
    /\ SnapsHasRoom
    /\ tr' = [tr EXCEPT !.snaps = Append(@, pcapSnapshotOf(loc[p].pkt, tr.snapSize)), !.accepted = Append(@, pcapSnapshotOf(loc[p].pkt, tr.snapSize)), !.dumps = @ + 1]
    /\ loc' = [loc EXCEPT ![p].ret = "sent"]
    /\ Goto(p, "done")
    /\ UNCHANGED <<fabricVars, ops, task, wc>>

\* select { case tr.snaps <- pcapSnapshot{...}: default: ... }.  log notes
\* the snapshot, the queue before and after, and the counter before.
Dump_Select(p) ==
    /\ pc[p] = "Dump_Select"
    /\ LET snap == pcapSnapshotOf(loc[p].pkt, tr.snapSize)
           note(sent, after) == [snap |-> snap, sent |-> sent, before |-> tr.snaps, after |-> after, handed |-> SaveLoopReceiving, dropped |-> tr.dropped]
       IN IF SaveLoopReceiving
          THEN /\ task' = [task EXCEPT !.pc = "save", !.snap = snap]
               /\ tr' = [tr EXCEPT !.accepted = Append(@, snap), !.dumps = @ + 1]
               /\ loc' = [loc EXCEPT ![p].ret = "sent", ![p].log = <<note(TRUE, tr.snaps)>>]
               /\ Goto(p, "done")
          ELSE IF SnapsHasRoom
          THEN /\ tr' = [tr EXCEPT !.snaps = Append(@, snap), !.accepted = Append(@, snap), !.dumps = @ + 1]
               /\ loc' = [loc EXCEPT ![p].ret = "sent", ![p].log = <<note(TRUE, Append(tr.snaps, snap))>>]
               /\ Goto(p, "done")
               /\ UNCHANGED task
          ELSE /\ loc' = [loc EXCEPT ![p].log = <<note(FALSE, tr.snaps)>>]
               /\ Goto(p, "Dump_Drop")
               /\ UNCHANGED <<tr, task>>
    /\ UNCHANGED <<fabricVars, ops, wc>>

\* A Dump that discards without counting.
Dump_Drop_NoCount(p) ==
    /\ pc[p] = "Dump_Drop"
    /\ tr' = [tr EXCEPT !.dumps = @ + 1]
    /\ loc' = [loc EXCEPT ![p].ret = "dropped"]
    /\ Goto(p, "done")
    /\ UNCHANGED <<fabricVars, ops, task, wc>>

\* default: tr.dropped.Add(1)
Dump_Drop(p) ==
    /\ pc[p] = "Dump_Drop"
    /\ tr' = [tr EXCEPT !.dropped = @ + 1, !.dumps = @ + 1]
    /\ loc' = [loc EXCEPT ![p].ret = "dropped"]
    /\ Goto(p, "done")
    /\ UNCHANGED <<fabricVars, ops, task, wc>>

\* ------------------------------------------------------- PCAPTrace.saveLoop

\* errch: make(chan error, 1)
ErrchSize == 1

\* An errch made without a buffer.
ErrchHasRoom_Unbuffered == Len(tr.errch) < ErrchSize - 1

\* The buffer of errch can take one more value.
ErrchHasRoom == Len(tr.errch) < ErrchSize

\* Close is blocked in err1 := <-tr.errch.
ErrchReceiving == \E p \in Procs : pc[p] = "TraceClose_Wait"

\* tr.errch <- err; return.  The send goes through when the buffer has
\* room or Close is receiving; otherwise saveLoop blocks in the send until
\* Close receives.  results is the history of the values delivered.
SaveLoop_Send(err) ==
    IF ErrchHasRoom \/ ErrchReceiving
    THEN /\ task' = [task EXCEPT !.pc = "stopped"]
         /\ tr' = [tr EXCEPT !.errch = Append(@, err), !.results = Append(@, err)]
    ELSE /\ task' = [task EXCEPT !.pc = "sending", !.err = err]
         /\ UNCHANGED tr

\* w.WriteFileHeader(uint32(tr.snapSize), layers.LinkTypeRaw): the call
\* enters the sink's Write, where it stays until the sink answers.
SaveLoop_WriteFileHeader ==
    /\ task.pc = "header"
    /\ wc' = [wc EXCEPT !.log = Append(@, SinkCall("Write", "header", NoSnap, "pending"))]
    /\ task' = [task EXCEPT !.pc = "header_writing", !.at = Len(wc.log) + 1]
    /\ UNCHANGED <<fabricVars, pc, loc, ops, tr>>

\* A saveLoop that goes on after the header could not be written.
SaveLoop_HeaderWritten_IgnoreError ==
    /\ task.pc = "header_writing"
    /\ \E err \in WriteResults :
        /\ wc' = [wc EXCEPT !.log[task.at].err = err]
        /\ task' = [task EXCEPT !.pc = "read"]
        /\ UNCHANGED tr
    /\ UNCHANGED <<fabricVars, pc, loc, ops>>

\* if err := w.WriteFileHeader(...); err != nil { tr.errch <- err; return }
SaveLoop_HeaderWritten ==
    /\ task.pc = "header_writing"
    /\ \E err \in WriteResults :
        /\ wc' = [wc EXCEPT !.log[task.at].err = err]
        /\ IF err = "nil"
           THEN /\ task' = [task EXCEPT !.pc = "read"]
                /\ UNCHANGED tr
           ELSE SaveLoop_Send(err)
    /\ UNCHANGED <<fabricVars, pc, loc, ops>>

\* A receive that takes the oldest snapshot and empties the queue.
ReadOrDrain_Recv_Flush ==
    /\ task.pc = "read"
    /\ tr.snaps # << >>
    /\ task' = [task EXCEPT !.pc = "save", !.snap = Head(tr.snaps)]
    /\ tr' = [tr EXCEPT !.snaps = << >>]
    /\ UNCHANGED <<fabricVars, pc, loc, ops, wc>>

\* case snap := <-tr.snaps, of the outer select or of the one under
\* case <-ctx.Done(): the oldest buffered snapshot is taken.
ReadOrDrain_Recv ==
    /\ task.pc = "read"
    /\ tr.snaps # << >>
    /\ task' = [task EXCEPT !.pc = "save", !.snap = Head(tr.snaps)]
    /\ tr' = [tr EXCEPT !.snaps = Tail(@)]
    /\ UNCHANGED <<fabricVars, pc, loc, ops, wc>>

\* A saveLoop that stops as soon as it sees the context cancelled.
ReadOrDrain_Empty_NoDrain ==
    /\ task.pc = "read"
    /\ tr.ctxDone
    /\ SaveLoop_Send("nil")
    /\ UNCHANGED <<fabricVars, pc, loc, ops, wc>>

\* case <-ctx.Done(): select { ...; default: return pcapSnapshot{}, false },
\* then tr.errch <- nil; return
ReadOrDrain_Empty ==
    /\ task.pc = "read"
    /\ tr.ctxDone
    /\ tr.snaps = << >>
    /\ SaveLoop_Send("nil")
    /\ UNCHANGED <<fabricVars, pc, loc, ops, wc>>

\* Neither case of the outer select is ready: the goroutine blocks.
ReadOrDrain_Park ==
    /\ task.pc = "read"
    /\ ~tr.ctxDone
    /\ tr.snaps = << >>
    /\ task' = [task EXCEPT !.pc = "parked"]
    /\ UNCHANGED <<fabricVars, pc, loc, ops, tr, wc>>

\* The cancelled context wakes the blocked goroutine: case <-ctx.Done().
ReadOrDrain_Wake ==
    /\ task.pc = "parked"
    /\ tr.ctxDone
    /\ task' = [task EXCEPT !.pc = "read"]
    /\ UNCHANGED <<fabricVars, pc, loc, ops, tr, wc>>

\* tr.savePacket(w, snap): w.WritePacket(ci, pinfo.data) enters the sink.
SavePacket ==
    /\ task.pc = "save"
    /\ wc' = [wc EXCEPT !.log = Append(@, SinkCall("Write", "packet", task.snap, "pending"))]
    /\ task' = [task EXCEPT !.pc = "saving", !.at = Len(wc.log) + 1]
    /\ UNCHANGED <<fabricVars, pc, loc, ops, tr>>

\* PCAPTrace.saveLoop: if err := tr.savePacket(w, snap); err != nil { tr.errch <- err; return }
SavePacketError_PCAPTrace(err) == err

\* PcapTrace.saveLoop: if err := tr.savePacket(w, snap); err != nil { tr.errch <- nil; return }
SavePacketError_PcapTrace(err) == "nil"

\* What saveLoop sends on errch when savePacket has failed with err.
SavePacketError(err) == IF tr.impl = "PCAPTrace" THEN SavePacketError_PCAPTrace(err) ELSE SavePacketError_PcapTrace(err)

\* The sink answers the write of a packet record.
SavePacket_Written ==
    /\ task.pc = "saving"
    /\ \E err \in WriteResults :
        /\ wc' = [wc EXCEPT !.log[task.at].err = err]
        /\ IF err = "nil"
           THEN /\ task' = [task EXCEPT !.pc = "read"]
                /\ UNCHANGED tr
           ELSE SaveLoop_Send(SavePacketError(err))
    /\ UNCHANGED <<fabricVars, pc, loc, ops>>

\* ---------------------------------------------------------- PCAPTrace.Close

\* errors.Join(err1, err2): nil (no error at all) when both are nil,
\* otherwise an error that errors.Is matches against each non-nil one.
Join_First(err1, err2) == IF err1 # "nil" THEN {err1} ELSE {err2} \ {"nil"}

Join(err1, err2) == {err1, err2} \ {"nil"}

\* Some goroutine is inside Dump.
DumpRunning == \E q \in Procs : pc[q] \in {"Dump_Select", "Dump_Drop"}

CallTraceClose(p) ==
    /\ Begin(p)
    /\ Goto(p, "TraceClose_Once")
    /\ loc' = [loc EXCEPT ![p] = NewCall("TraceClose", "none")]
    /\ tr' = IF tr.closeCalled THEN tr ELSE [tr EXCEPT !.closeCalled = TRUE, !.owed = tr.accepted, !.overlap = IF DumpRunning THEN "running" ELSE "none"]
    /\ UNCHANGED <<fabricVars, task, wc>>

\* tr.once.Do(func() {...}): the first caller runs the function; any other
\* waits until it has returned, and returns the zero err.  num notes
\* whether this call ran the function.
TraceClose_Once(p) ==
    /\ pc[p] = "TraceClose_Once"
    /\ tr.once # "running"
    /\ IF tr.once = "fresh"
       THEN /\ Goto(p, "TraceClose_Cancel")
            /\ tr' = [tr EXCEPT !.once = "running"]
            /\ loc' = [loc EXCEPT ![p].num = 1]
       ELSE /\ Goto(p, "done")
            /\ loc' = [loc EXCEPT ![p].ret = Join("nil", "nil")]
            /\ UNCHANGED tr
    /\ UNCHANGED <<fabricVars, ops, task, wc>>

\* A Close that closes the sink without waiting for saveLoop.
TraceClose_Cancel_NoWait(p) ==
    /\ pc[p] = "TraceClose_Cancel"
    /\ tr' = [tr EXCEPT !.ctxDone = TRUE]
    /\ Goto(p, "TraceClose_SinkClose")
    /\ UNCHANGED <<fabricVars, loc, ops, task, wc>>

\* tr.cancel()
TraceClose_Cancel(p) ==
    /\ pc[p] = "TraceClose_Cancel"
    /\ tr' = [tr EXCEPT !.ctxDone = TRUE]
    /\ Goto(p, "TraceClose_Wait")
    /\ UNCHANGED <<fabricVars, loc, ops, task, wc>>

\* err1 := <-tr.errch: the buffered value, or the one a saveLoop blocked
\* in the send is holding.
TraceClose_Wait(p) ==
    /\ pc[p] = "TraceClose_Wait"
    /\ tr.errch # << >> \/ task.pc = "sending"
    /\ IF tr.errch # << >>
       THEN /\ loc' = [loc EXCEPT ![p].arg = Head(tr.errch)]
            /\ tr' = [tr EXCEPT !.errch = Tail(@)]
            /\ UNCHANGED task
       ELSE /\ loc' = [loc EXCEPT ![p].arg = task.err]
            /\ tr' = [tr EXCEPT !.results = Append(@, task.err)]
            /\ task' = [task EXCEPT !.pc = "stopped"]
    /\ Goto(p, "TraceClose_SinkClose")
    /\ UNCHANGED <<fabricVars, ops, wc>>

\* err2 := tr.wc.Close(); err = errors.Join(err1, err2)
TraceClose_SinkClose(p) ==
    /\ pc[p] = "TraceClose_SinkClose"
    /\ \E err2 \in CloseResults :
        /\ wc' = [wc EXCEPT !.log = Append(@, SinkCall("Close", "close", NoSnap, err2))]
        /\ loc' = [loc EXCEPT ![p].ret = Join(loc[p].arg, err2), ![p].lNet = err2]
    /\ Goto(p, "TraceClose_Return")
    /\ UNCHANGED <<fabricVars, ops, tr, task>>

\* the function passed to once.Do returns
TraceClose_Return(p) ==
    /\ pc[p] = "TraceClose_Return"
    /\ tr' = [tr EXCEPT !.once = "done"]
    /\ Goto(p, "done")
    /\ UNCHANGED <<fabricVars, loc, ops, task, wc>>

\* ------------------------------------------------------------ the pump loop

\* case frame := <-ix.InFlight(): _ = ix.Deliver(frame), the body of the
\* loop that moves frames: the frame just received is delivered.
PumpHolds(p) == pc[p] = "done" /\ loc[p].op = "Recv" /\ loc[p].ret = "frame"

PumpDeliver(p) ==
    /\ PumpHolds(p)
    /\ Goto(p, "Deliver_Parse")
    /\ loc' = [loc EXCEPT ![p] = [NewCall("Deliver", "none") EXCEPT !.pkt = loc[p].pkt, !.pkts = <<loc[p].pkt>>]]
    /\ UNCHANGED <<trVars, vnic, vmu, ops, netVars, obsVars>>

\* ------------------------------------------------------------ construction

\* NewInternet(InternetOptionMaxInflight(c)) and the endpoints made so far
InitEndpoints(caps, endpoints, tables) ==
    /\ capacity \in caps
    /\ inflight = << >>
    /\ recvq = << >>
    /\ routes \in tables
    /\ ixmu = Unlocked
    /\ vnic \in endpoints
    /\ vmu = [v \in VNICs |-> Unlocked]
    /\ pc = [p \in Procs |-> "idle"]
    /\ loc = [p \in Procs |-> IdleLoc]
    /\ delivered = [d \in Dispatchers |-> << >>]
    /\ hookLog = [v \in VNICs |-> << >>]
    /\ closedWith = [v \in VNICs |-> "open"]
    /\ transit = NewTransit
    /\ ops = 0

\* e1 := ix.NewVNIC(m1) and e2 := NewVNIC(m2, nil)
InitFabric(caps, mtus1, mtus2) == InitEndpoints(caps, {[v \in VNICs |-> IF v = "e1" THEN NewVNIC(m1, "ix") ELSE NewVNIC(m2, NoNet)] : m1 \in mtus1, m2 \in mtus2}, {NewInternetRoutes})

\* trace := NewPCAPTrace(wc, snapSize, PCAPTraceOptionBuffer(c)) or NewPcapTrace(wc, snapSize)
InitTraces(traces) ==
    /\ tr \in traces
    /\ task = NewSaveLoop
    /\ wc = NewSink

InitWith(caps, mtus1, mtus2) == InitFabric(caps, mtus1, mtus2) /\ InitTraces({NewPCAPTrace(MTUEthernet, 0)})


\* ------------------------------------------------------------ behaviours

AttachSteps(p) == Attach_Lock(p) \/ Attach_Set(p) \/ Attach_Unlock(p)

CloseSteps(p) == Close_Lock(p) \/ Close_Check(p) \/ Close_SetClosed(p) \/ Close_SetDisp(p) \/ Close_Hook(p) \/ Close_Unlock(p)

HookSteps(p) == Hook_Lock(p) \/ Hook_Unlock(p)

IsAttachedSteps(p) == IsAttached_RLock(p) \/ IsAttached_Read(p) \/ IsAttached_RUnlock(p)

SetSteps(p) == Set_Lock(p) \/ Set_Write(p) \/ Set_Unlock(p)

GetSteps(p) == Get_RLock(p) \/ Get_Read(p) \/ Get_RUnlock(p)

WritePacketsSteps(p) == WritePackets_RLock(p) \/ WritePackets_ReadNetwork(p) \/ WritePackets_ReadClosed(p) \/ WritePackets_ReadMtu(p) \/ WritePackets_RUnlock(p) \/ WritePackets_Loop(p) \/ WritePackets_Return(p)

InjectSteps(p) == Inject_Enter(p) \/ Inject_RLock(p) \/ Inject_ReadDisp(p) \/ Inject_ReadClosed(p) \/ Inject_ReadMtu(p) \/ Inject_RUnlock(p) \/ Inject_Deliver(p)

AddRouteSteps(p) == AddRoute_Lock(p) \/ AddRoute_Loop(p) \/ AddRoute_Return(p) \/ AddRoute_Unlock(p)

DeliverSteps(p) == Deliver_Parse(p) \/ Deliver_RLock(p) \/ Deliver_Lookup(p) \/ Deliver_RUnlock(p) \/ Deliver_Return(p)

RecvSteps(p) == Recv_Chan(p) \/ Recv_Stop(p)

DumpSteps(p) == Dump_Select(p) \/ Dump_Drop(p)

TraceCloseSteps(p) == TraceClose_Once(p) \/ TraceClose_Cancel(p) \/ TraceClose_Wait(p) \/ TraceClose_SinkClose(p) \/ TraceClose_Return(p)

SaveLoopSteps == SaveLoop_WriteFileHeader \/ SaveLoop_HeaderWritten \/ ReadOrDrain_Recv \/ ReadOrDrain_Empty \/ ReadOrDrain_Park \/ ReadOrDrain_Wake \/ SavePacket \/ SavePacket_Written

\* The lists of at most n elements of S.
RECURSIVE ListsUpTo(_, _)
ListsUpTo(S, n) == IF n = 0 THEN {<< >>} ELSE ListsUpTo(S, n - 1) \cup {Append(l, x) : l \in {m \in ListsUpTo(S, n - 1) : Len(m) = n - 1}, x \in S}

Init == InitWith(0..MaxInflight, MTUs, MTUs)

Next ==
    \E p \in Procs :
        \/ \E v \in VNICs : CallAttach(p, v, NoDisp) \/ CallAttach(p, v, DispOf(v))
        \/ \E v \in VNICs : CallClose(p, v)
        \/ \E v \in VNICs : CallIsAttached(p, v)
        \/ \E v \in VNICs : CallSetLinkAddress(p, v, "test")
        \/ \E v \in VNICs, m \in MTUs : CallSetMTU(p, v, m)
        \/ \E v \in VNICs, h \in Hooks \cup {NoHook} : CallSetOnCloseAction(p, v, h)
        \/ \E v \in VNICs, pkts \in ListsUpTo(Packets, 1) : CallWritePackets(p, v, pkts)
        \/ \E v \in VNICs, pkt \in Packets : CallInjectFrame(p, v, pkt)
        \/ \E v \in VNICs, addrs \in ListsUpTo(Addrs, 1) : CallAddRoute(p, v, addrs)
        \/ \E pkt \in Packets : CallDeliver(p, pkt)
        \/ CallRecv(p)
        \/ AttachSteps(p) \/ CloseSteps(p) \/ IsAttachedSteps(p) \/ SetSteps(p)
        \/ WritePacketsSteps(p) \/ InjectSteps(p) \/ AddRouteSteps(p) \/ DeliverSteps(p) \/ RecvSteps(p)
        \/ MutateBuffer(p) \/ Return(p)

Spec == Init /\ [][Next]_vars


\* Injection into one endpoint, against Attach, Close and SetMTU.
InjectPackets == {<< >>, <<112>>, <<69>>, <<96, 0>>}

InitInject == InitWith({DefaultMaxInflight}, MTUs, {MTUEthernet})

NextInject ==
    \E p \in Procs :
        \/ CallAttach(p, "e1", NoDisp) \/ CallAttach(p, "e1", DispOf("e1"))
        \/ CallClose(p, "e1")
        \/ \E m \in MTUs : CallSetMTU(p, "e1", m)
        \/ \E pkt \in InjectPackets : CallInjectFrame(p, "e1", pkt)
        \/ AttachSteps(p) \/ CloseSteps(p) \/ SetSteps(p) \/ InjectSteps(p)
        \/ MutateBuffer(p) \/ Return(p)

SpecInject == InitInject /\ [][NextInject]_vars


\* Routing: AddRoute and Deliver over both endpoints, against Attach.  One
\* goroutine sets the routes up; every goroutine attaches and delivers.
Registrars == {"p1"}

RouteAddrs == {AddrA4, AddrA6}

DeliverPackets == {<< >>, IPv4Packet(AddrA4, << >>), IPv4Packet(AddrB4, <<7>>), IPv6Packet(AddrA6), SubSeq(IPv4Packet(AddrA4, << >>), 1, 19)}

InitRoute == InitWith({DefaultMaxInflight}, {MTUEthernet}, {MTUEthernet})

NextRoute ==
    \E p \in Procs :
        \/ \E v \in VNICs : CallAttach(p, v, DispOf(v))
        \/ \E v \in VNICs, addrs \in ListsUpTo(RouteAddrs, MaxAddrs) : p \in Registrars /\ CallAddRoute(p, v, addrs)
        \/ \E pkt \in DeliverPackets : CallDeliver(p, pkt)
        \/ AttachSteps(p) \/ AddRouteSteps(p) \/ DeliverSteps(p) \/ InjectSteps(p)
        \/ Return(p)

SpecRoute == InitRoute /\ [][NextRoute]_vars


\* The transit queue: producers write batches through e1 while consumers
\* take frames from InFlight(), or never come.
QueueFrames == {<<69>>}

InitQueue == InitWith(0..MaxInflight, {MTUEthernet}, {MTUEthernet})

NextQueue ==
    \E p \in Procs :
        \/ \E pkts \in ListsUpTo(QueueFrames, MaxBatch) : CallWritePackets(p, "e1", pkts)
        \/ CallRecv(p)
        \/ WritePacketsSteps(p) \/ RecvSteps(p)
        \/ Return(p)

SpecQueue == InitQueue /\ [][NextQueue]_vars


\* One sender writing batches of good and bad frames through e1, and one
\* consumer of the transit queue.
Writers == {"p1"}

WriteFrames == {<< >>, <<69>>, <<69, 0>>}

InitWrite == InitWith(0..MaxInflight, MTUs, {MTUEthernet})

NextWrite ==
    \E p \in Procs :
        \/ \E pkts \in ListsUpTo(WriteFrames, MaxBatch) : p \in Writers /\ CallWritePackets(p, "e1", pkts)
        \/ p \notin Writers /\ CallRecv(p)
        \/ WritePacketsSteps(p) \/ RecvSteps(p)
        \/ Return(p)

SpecWrite == InitWrite /\ [][NextWrite]_vars


\* The life of one endpoint: Close against every other method of the VNIC.
InitClose == InitWith({DefaultMaxInflight}, {MTUEthernet}, {MTUEthernet})

NextClose ==
    \E p \in Procs :
        \/ CallSetOnCloseAction(p, "e1", "h1")
        \/ CallSetLinkAddress(p, "e1", "test")
        \/ \E m \in MTUs : CallSetMTU(p, "e1", m)
        \/ CallAttach(p, "e1", DispOf("e1"))
        \/ CallClose(p, "e1")
        \/ CallIsAttached(p, "e1")
        \/ CallInjectFrame(p, "e1", <<69>>)
        \/ CallWritePackets(p, "e1", <<<<69>>>>)
        \/ SetSteps(p) \/ AttachSteps(p) \/ CloseSteps(p) \/ IsAttachedSteps(p)
        \/ InjectSteps(p) \/ WritePacketsSteps(p)
        \/ Return(p)

SpecClose == InitClose /\ [][NextClose]_vars


\* Sending through an endpoint that may be closed (e1) or that was built
\* with no network (e2).
InitNoNet == InitWith({DefaultMaxInflight}, {MTUEthernet}, {MTUEthernet})

NextNoNet ==
    \E p \in Procs :
        \/ CallClose(p, "e1")
        \/ \E v \in VNICs, pkts \in ListsUpTo({<<69>>}, MaxBatch) : CallWritePackets(p, v, pkts)
        \/ CloseSteps(p) \/ WritePacketsSteps(p)
        \/ Return(p)

SpecNoNet == InitNoNet /\ [][NextNoNet]_vars

\* Stacks made with ix.NewStack on a new Internet, and packets delivered
\* to them (TestInternetNewStackDuplicateAddress).
StackAddrs == {AddrA4, AddrB4}

StackPackets == {IPv4Packet(AddrA4, << >>), IPv4Packet(AddrB4, <<7>>)}

InitStack == InitEndpoints({DefaultMaxInflight}, {[v \in VNICs |-> NoVNIC]}, {NewInternetRoutes}) /\ InitTraces({NewPCAPTrace(MTUEthernet, 0)})

NextStack ==
    \E p \in Procs :
        \/ \E addrs \in ListsUpTo(StackAddrs, MaxAddrs) : CallNewStack(p, MTUEthernet, addrs)
        \/ \E pkt \in StackPackets : CallDeliver(p, pkt)
        \/ AddRouteSteps(p) \/ NewStack_Return(p) \/ DeliverSteps(p) \/ InjectSteps(p)
        \/ Return(p)

SpecStack == InitStack /\ [][NextStack]_vars

\* TestVNICInterfaceMethods: Attach with a dispatcher and with nil,
\* Close, IsAttached and InjectFrame on one endpoint.
InitAttach == InitWith({DefaultMaxInflight}, {MTUEthernet}, {MTUEthernet})

NextAttach ==
    \E p \in Procs :
        \/ \E d \in {DispOf("e1"), NoDisp} : CallAttach(p, "e1", d)
        \/ CallClose(p, "e1")
        \/ CallIsAttached(p, "e1")
        \/ CallInjectFrame(p, "e1", <<69>>)
        \/ AttachSteps(p) \/ CloseSteps(p) \/ IsAttachedSteps(p) \/ InjectSteps(p)
        \/ Return(p)

SpecAttach == InitAttach /\ [][NextAttach]_vars

\* TestInternetDeliverFailures, with the addresses registered: Deliver of
\* well-formed, truncated and unversioned packets that carry registered
\* addresses at the destination offsets of either header.
ParseRoutes == [a \in {AddrA4, AddrA6} |-> IF a = AddrA4 THEN "e1" ELSE "e2"]

\* An IPv4 header with 10.0.0.1 at 16..19 and the IPv6 address at 24..39.
BothOffsets(first) == <<first>> \o Zeros(15) \o AddrA4 \o Zeros(4) \o AddrA6

Truncated(pkt, n) == SubSeq(pkt, 1, n)

ParsePackets ==
    {<< >>, <<112>>, <<69, 0>>,
     IPv4Packet(AddrA4, << >>), IPv4Packet(AddrA4, <<7>>), IPv6Packet(AddrA6),
     BothOffsets(69), BothOffsets(96), BothOffsets(112),
     Truncated(BothOffsets(69), 19), Truncated(BothOffsets(96), 39), Truncated(BothOffsets(96), 20),
     <<69>> \o Zeros(11) \o AddrA4}

InitParse == InitEndpoints({DefaultMaxInflight}, {[v \in VNICs |-> [NewVNIC(MTUEthernet, "ix") EXCEPT !.disp = DispOf(v)]]}, {ParseRoutes}) /\ InitTraces({NewPCAPTrace(MTUEthernet, 0)})

NextParse ==
    \E p \in Procs :
        \/ \E pkt \in ParsePackets : CallDeliver(p, pkt)
        \/ DeliverSteps(p) \/ InjectSteps(p)
        \/ Return(p)

SpecParse == InitParse /\ [][NextParse]_vars

\* The adapter layer: DialContext, Listen and ListenPacket on the
\* networks and the address strings of connector_test.go and on malformed
\* relatives of them.
ConnectorOps == {"DialContext", "Listen", "ListenPacket"}

Networks == {"tcp", "udp", "tcp4", "ip"}

Literal4 == <<"1", "0", ".", "0", ".", "0", ".", "1">>

Literal6 == <<":", ":", "1">>

Hostname == <<"e", "x", "a", "m", "p", "l", "e", ".", "c", "o", "m">>

\* "10.0.0.1:80" and "[::1]:80"
LiteralAddresses == {Literal4 \o <<":", "8", "0">>, <<"[">> \o Literal6 \o <<"]", ":", "8", "0">>}

\* "example.com:53", "10.0.0.1", "10.0.0.1:", ":80", "10.0.0.1:http",
\* "10.0.0.256:80", "10.0.1:80", "[10.0.0.1]:80", "::1:80", "[::1:80",
\* "10.0.0.1:65536" and the empty string
OtherAddresses ==
    {Hostname \o <<":", "5", "3">>, Literal4, Literal4 \o <<":">>, <<":", "8", "0">>,
     Literal4 \o <<":", "h", "t", "t", "p">>,
     <<"1", "0", ".", "0", ".", "0", ".", "2", "5", "6", ":", "8", "0">>,
     <<"1", "0", ".", "0", ".", "1", ":", "8", "0">>,
     <<"[">> \o Literal4 \o <<"]", ":", "8", "0">>,
     Literal6 \o <<":", "8", "0">>,
     <<"[">> \o Literal6 \o <<":", "8", "0">>,
     Literal4 \o <<":", "6", "5", "5", "3", "6">>,
     << >>}

Callers == {"p1"}

InitConnector == InitWith({DefaultMaxInflight}, {MTUEthernet}, {MTUEthernet})

NextConnector ==
    \E p \in Procs :
        \/ \E op \in ConnectorOps, network \in Networks, address \in LiteralAddresses \cup OtherAddresses :
                /\ p \in Callers \/ (op = "DialContext" /\ address \in LiteralAddresses)
                /\ CallConnector(p, op, network, address)
        \/ DialContext(p) \/ Listen(p) \/ ListenPacket(p)
        \/ Return(p)

SpecConnector == InitConnector /\ [][NextConnector]_vars

\* errorsRemap on nil, on each message of the map alone, behind the text
\* of a wrapping error, without its first character and followed by one
\* more character, and on texts that hold no message.
WrapText == <<"d", "i", "a", "l", ":", " ">>

ErrorTexts ==
    UNION {{e.suffix, WrapText \o e.suffix, Tail(e.suffix), e.suffix \o <<".">>, e.suffix \o WrapText} : e \in errorsMap}
        \cup {<< >>, <<"E", "O", "F">>, WrapText}

InitRemap == InitWith({DefaultMaxInflight}, {MTUEthernet}, {MTUEthernet})

NextRemap ==
    \E p \in Procs :
        \/ \E err \in {NilError} \cup {EngineError(text) : text \in ErrorTexts} : CallErrorsRemap(p, err)
        \/ errorsRemap(p)
        \/ Return(p)

SpecRemap == InitRemap /\ [][NextRemap]_vars

\* NewPCAPTrace(wc, snapSize, options...) with no option, one or more,
\* of positive, zero and negative sizes, and goroutines that Dump and
\* Close.
BufferSizes == (-1)..MaxBufferSize

OptionPacket == <<0>>

InitOption == InitFabric({DefaultMaxInflight}, {MTUEthernet}, {MTUEthernet}) /\ InitTraces({NewPCAPTraceWith(MTUEthernet, options) : options \in ListsUpTo(BufferSizes, MaxOptions)})

NextOption ==
    \/ \E p \in Procs :
        \/ CallDump(p, OptionPacket)
        \/ CallTraceClose(p)
        \/ DumpSteps(p) \/ TraceCloseSteps(p)
        \/ Return(p)
    \/ SaveLoopSteps

SpecOption == InitOption /\ [][NextOption]_vars

\* AddRoute of one or two addresses from both goroutines, against Deliver
\* to those addresses.
AtomicAddrs == {AddrA4, AddrB4}

InitAtomic == InitEndpoints({DefaultMaxInflight}, {[v \in VNICs |-> [NewVNIC(MTUEthernet, "ix") EXCEPT !.disp = DispOf(v)]]}, {NewInternetRoutes}) /\ InitTraces({NewPCAPTrace(MTUEthernet, 0)})

NextAtomic ==
    \E p \in Procs :
        \/ \E v \in VNICs, addrs \in ListsUpTo(AtomicAddrs, MaxAddrs) : CallAddRoute(p, v, addrs)
        \/ \E a \in AtomicAddrs : CallDeliver(p, IPv4Packet(a, << >>))
        \/ AddRouteSteps(p) \/ DeliverSteps(p) \/ InjectSteps(p)
        \/ Return(p)

SpecAtomic == InitAtomic /\ [][NextAtomic]_vars

\* Every method of the endpoint that touches a mutable field, from both
\* goroutines on one endpoint.
InitLock == InitWith({DefaultMaxInflight}, {MTUEthernet}, {MTUEthernet})

NextLock ==
    \E p \in Procs :
        \/ CallAttach(p, "e1", DispOf("e1"))
        \/ CallClose(p, "e1")
        \/ CallIsAttached(p, "e1")
        \/ CallLinkAddress(p, "e1")
        \/ CallMTU(p, "e1")
        \/ CallSetLinkAddress(p, "e1", "test")
        \/ \E m \in MTUs : CallSetMTU(p, "e1", m)
        \/ CallSetOnCloseAction(p, "e1", "h1")
        \/ CallWritePackets(p, "e1", <<<<69, 0>>>>)
        \/ CallInjectFrame(p, "e1", <<69, 0>>)
        \/ AttachSteps(p) \/ CloseSteps(p) \/ IsAttachedSteps(p) \/ GetSteps(p) \/ SetSteps(p)
        \/ WritePacketsSteps(p) \/ InjectSteps(p)
        \/ Return(p)

SpecLock == InitLock /\ [][NextLock]_vars

\* Close of an endpoint whose hook is plain or calls a method of this or
\* of the other endpoint, against the other operations of the endpoint.
InitHook == InitEndpoints({DefaultMaxInflight}, {[v \in VNICs |-> [NewVNIC(MTUEthernet, "ix") EXCEPT !.disp = DispOf(v), !.closefunc = h]] : h \in Hooks \cup LockingHooks}, {NewInternetRoutes}) /\ InitTraces({NewPCAPTrace(MTUEthernet, 0)})

NextHook ==
    \E p \in Procs :
        \/ CallClose(p, "e1")
        \/ CallAttach(p, "e1", DispOf("e1"))
        \/ CallIsAttached(p, "e1")
        \/ CallMTU(p, "e1")
        \/ CallInjectFrame(p, "e1", <<69, 0>>)
        \/ CallWritePackets(p, "e1", <<<<69, 0>>>>)
        \/ CloseSteps(p) \/ HookSteps(p) \/ AttachSteps(p) \/ IsAttachedSteps(p) \/ GetSteps(p)
        \/ InjectSteps(p) \/ WritePacketsSteps(p)
        \/ Return(p)

SpecHook == InitHook /\ [][NextHook]_vars

\* One goroutine transmits batches of frames that differ, into a queue of
\* MaxInflight or MaxInflight + 1 places, while the other goroutine
\* receives from InFlight().
FifoFrames == {<<69>>, <<96, 2>>}

InitFifo == InitEndpoints(MaxInflight..(MaxInflight + 1), {[v \in VNICs |-> NewVNIC(MTUEthernet, "ix")]}, {NewInternetRoutes}) /\ InitTraces({NewPCAPTrace(MTUEthernet, 0)})

NextFifo ==
    \E p \in Procs :
        \/ (p \in Writers /\ \E pkts \in ListsUpTo(FifoFrames, MaxBatch) : CallWritePackets(p, "e1", pkts))
        \/ (p \notin Writers /\ CallRecv(p))
        \/ WritePacketsSteps(p) \/ RecvSteps(p)
        \/ Return(p)

SpecFifo == InitFifo /\ [][NextFifo]_vars

\* An Internet with 10.0.0.1 bound to e1 or nothing bound, and every
\* operation that could touch the table: AddRoute, Deliver, WritePackets
\* (SendFrame), VNIC.Attach and VNIC.Close.
TableA == [a \in {AddrA4} |-> "e1"]

InitTable == InitEndpoints({DefaultMaxInflight}, {[v \in VNICs |-> IF v = "e1" THEN NewVNIC(MTUEthernet, "ix") ELSE NewVNIC(MTUEthernet, NoNet)]}, {NewInternetRoutes, TableA}) /\ InitTraces({NewPCAPTrace(MTUEthernet, 0)})

NextTable ==
    \E p \in Procs :
        \/ CallAttach(p, "e1", DispOf("e1"))
        \/ CallClose(p, "e1")
        \/ \E v \in VNICs : CallAddRoute(p, v, <<AddrA4>>)
        \/ CallDeliver(p, IPv4Packet(AddrA4, << >>))
        \/ CallWritePackets(p, "e1", <<IPv4Packet(AddrA4, << >>)>>)
        \/ AttachSteps(p) \/ CloseSteps(p) \/ AddRouteSteps(p) \/ DeliverSteps(p) \/ InjectSteps(p) \/ WritePacketsSteps(p)
        \/ Return(p)

SpecTable == InitTable /\ [][NextTable]_vars

\* An Internet with e1 attached at 10.0.0.1: frames are written and
\* received while AddRoute, NewStack (NewVNIC) and Deliver run, Deliver
\* being given a frame that was never written.
DrainWritten == IPv4Packet(AddrA4, << >>)

DrainOther == IPv4Packet(AddrA4, <<7>>)

InitDrain == InitEndpoints(1..MaxInflight, {[v \in VNICs |-> IF v = "e1" THEN [NewVNIC(MTUEthernet, "ix") EXCEPT !.disp = DispOf(v)] ELSE NoVNIC]}, {TableA}) /\ InitTraces({NewPCAPTrace(MTUEthernet, 0)})

NextDrain ==
    \E p \in Procs :
        \/ CallWritePackets(p, "e1", <<DrainWritten>>)
        \/ CallRecv(p)
        \/ CallDeliver(p, DrainOther)
        \/ CallAddRoute(p, "e1", <<AddrB4>>)
        \/ CallNewStack(p, MTUEthernet, <<AddrB4>>)
        \/ WritePacketsSteps(p) \/ RecvSteps(p) \/ DeliverSteps(p) \/ InjectSteps(p) \/ AddRouteSteps(p) \/ NewStack_Return(p)
        \/ Return(p)

SpecDrain == InitDrain /\ [][NextDrain]_vars

\* Example_udpEchoIPv4: srv := ix.NewStack(mtu, 10.0.0.1) and clnt :=
\* ix.NewStack(mtu, 10.0.0.2) have returned; one goroutine writes one
\* packet for the other stack and stays, the foreground loop reads
\* InFlight() and delivers every frame it reads.
PumpPayloads == {<< >>, <<7>>}

PumpRoutes == [a \in {AddrA4, AddrB4} |-> IF a = AddrA4 THEN "e1" ELSE "e2"]

InitPump == InitEndpoints(1..MaxInflight, {[v \in VNICs |-> [NewVNIC(MTUEthernet, "ix") EXCEPT !.disp = DispOf(v)]]}, {PumpRoutes}) /\ InitTraces({NewPCAPTrace(MTUEthernet, 0)})

\* A step of the goroutine p of the example.
PumpSteps(p) ==
    \/ p \notin Writers /\ CallRecv(p)
    \/ p \notin Writers /\ PumpDeliver(p)
    \/ WritePacketsSteps(p) \/ Recv_Chan(p) \/ DeliverSteps(p) \/ InjectSteps(p)
    \/ p \notin Writers /\ ~PumpHolds(p) /\ Return(p)

NextPump ==
    \E p \in Procs :
        \/ \E payload \in PumpPayloads : p \in Writers /\ CallWritePackets(p, "e1", <<IPv4Packet(AddrB4, payload)>>)
        \/ PumpSteps(p)

SpecPump == InitPump /\ [][NextPump]_vars

\* The example under the Go scheduler: a goroutine that can run does run.
SpecPumpFair == SpecPump /\ \A p \in Procs : WF_vars(PumpSteps(p))


\* The sender e1 and the target e2 of 10.0.0.2 have MTUs of their own: the
\* length of the shorter frame or the Ethernet one.  e2 is attached or
\* detached, and may be closed while frames travel.
MtuFrames == {IPv4Packet(AddrB4, payload) : payload \in PumpPayloads}

EndpointMtus == {Len(IPv4Packet(AddrB4, << >>)), MTUEthernet}

InitMtu == InitEndpoints(1..MaxInflight, {[v \in VNICs |-> IF v = "e1" THEN [NewVNIC(m1, "ix") EXCEPT !.disp = DispOf(v)] ELSE [NewVNIC(m2, "ix") EXCEPT !.disp = d]] : m1 \in EndpointMtus, m2 \in EndpointMtus, d \in {NoDisp, DispOf("e2")}}, {PumpRoutes}) /\ InitTraces({NewPCAPTrace(MTUEthernet, 0)})

NextMtu ==
    \E p \in Procs :
        \/ \E frame \in MtuFrames : p \in Writers /\ CallWritePackets(p, "e1", <<frame>>)
        \/ CallClose(p, "e2")
        \/ PumpSteps(p) \/ CloseSteps(p)

SpecMtu == InitMtu /\ [][NextMtu]_vars

\* The capture: goroutines dumping packets and closing the trace, the
\* saveLoop goroutine, and a sink whose calls may fail or never return.
SnapSizes == {1, MTUEthernet}

DumpPackets == {<<0>>, <<1, 2>>}

Traces == {NewPCAPTrace(n, c) : n \in SnapSizes, c \in 1..MaxBufferSize} \cup {NewPcapTrace(n) : n \in SnapSizes}

InitTrace == InitFabric({DefaultMaxInflight}, {MTUEthernet}, {MTUEthernet}) /\ InitTraces(Traces)

NextTrace ==
    \/ \E p \in Procs :
        \/ \E packet \in DumpPackets : CallDump(p, packet)
        \/ CallTraceClose(p)
        \/ DumpSteps(p) \/ TraceCloseSteps(p)
        \/ Return(p)
    \/ SaveLoopSteps

SpecTrace == InitTrace /\ [][NextTrace]_vars

\* The same trace under the Go scheduler: a goroutine that can run does
\* run, and the sink answers every write it was given.
SpecTraceFair == SpecTrace /\ WF_vars(SaveLoopSteps) /\ \A p \in Procs : WF_vars(TraceCloseSteps(p))

\* ------------------------------------------------------------------ claims

\* What a finished InjectFrame call of p was given and found: the frame as
\* passed, and the endpoint as it was when the call took the read lock.
InjectDone(p) == pc[p] = "done" /\ loc[p].op = "InjectFrame"

FrameOf(p) == loc[p].pkts[1]

Nibble(pkt) == pkt[1] \div 16

\* C1: InjectFrame of a frame with 0 < len <= MTU and version nibble 4 or 6
\* into an open endpoint with a dispatcher returns true, calls
\* DeliverNetworkPacket exactly once on that dispatcher with the protocol
\* of the nibble, and the bytes delivered are those of the frame passed,
\* whatever the caller writes into its buffer afterwards.
C1_InjectDelivers ==
    \A p \in Procs :
        (/\ InjectDone(p)
         /\ Len(FrameOf(p)) > 0
         /\ Nibble(FrameOf(p)) \in {4, 6}
         /\ Len(FrameOf(p)) <= loc[p].pre.mtu
         /\ ~loc[p].pre.isclosed
         /\ loc[p].pre.disp # NoDisp)
        => /\ loc[p].ret = TRUE
           /\ loc[p].num = 1
           /\ loc[p].i \in 1..Len(delivered[loc[p].pre.disp])
           /\ LET e == delivered[loc[p].pre.disp][loc[p].i]
              IN /\ e.proto = (IF Nibble(FrameOf(p)) = 4 THEN "ipv4.ProtocolNumber" ELSE "ipv6.ProtocolNumber")
                 /\ DeliveredBytes(e) = FrameOf(p)

\* An IPv6 frame was delivered and the caller has since overwritten its buffer.
C1_Witness ==
    \E p \in Procs :
        /\ InjectDone(p)
        /\ loc[p].ret = TRUE
        /\ Nibble(FrameOf(p)) = 6
        /\ loc[p].pkt # FrameOf(p)
        /\ loc[p].pre.mtu = MTUEthernet

\* The cases in which InjectFrame must discard the frame.
InjectMustDiscard(p) ==
    \/ Len(FrameOf(p)) = 0
    \/ Nibble(FrameOf(p)) \notin {4, 6}
    \/ loc[p].pre.isclosed
    \/ loc[p].pre.disp = NoDisp
    \/ Len(FrameOf(p)) > loc[p].pre.mtu

InjectLabels == {"Inject_Enter", "Inject_RLock", "Inject_ReadDisp", "Inject_ReadClosed", "Inject_ReadMtu", "Inject_RUnlock", "Inject_Deliver"}

\* C2: InjectFrame returns false and calls no dispatcher when the frame is
\* empty, its nibble is neither 4 nor 6, the endpoint is closed, has no
\* dispatcher, or the frame is longer than the MTU; and no step of
\* InjectFrame changes a field of any endpoint.
C2_InjectDiscards ==
    /\ [](\A p \in Procs : (InjectDone(p) /\ InjectMustDiscard(p)) => (loc[p].ret = FALSE /\ loc[p].num = 0))
    /\ [][\A p \in Procs : (pc[p] \in InjectLabels /\ pc'[p] # pc[p]) => vnic' = vnic]_vars

\* A frame longer than the MTU was refused by an open, attached endpoint.
C2_Witness ==
    \E p \in Procs :
        /\ InjectDone(p)
        /\ loc[p].ret = FALSE
        /\ ~loc[p].pre.isclosed
        /\ loc[p].pre.disp # NoDisp
        /\ Nibble(FrameOf(p)) = 6
        /\ Len(FrameOf(p)) > loc[p].pre.mtu


DeliverDone(p) == pc[p] = "done" /\ loc[p].op = "Deliver"

\* C3: Deliver is decided by the routing table it looked up and the packet
\* bytes.  With the parsed destination registered, InjectFrame is called
\* exactly once, on the endpoint registered for it, and Deliver returns
\* what that call returned; otherwise Deliver returns false and calls no
\* InjectFrame.
C3_DeliverRoutes ==
    \A p \in Procs :
        DeliverDone(p) =>
            LET parsed == internetParseDestinationIP(FrameOf(p))
            IN IF parsed.ok /\ parsed.addr \in DOMAIN loc[p].tbl
               THEN /\ loc[p].log = <<loc[p].tbl[parsed.addr]>>
                    /\ loc[p].injRet = ~InjectMustDiscard(p)
                    /\ loc[p].ret = loc[p].injRet
               ELSE /\ loc[p].log = << >>
                    /\ loc[p].num = 0
                    /\ loc[p].ret = FALSE

\* A packet for an address of e2 reached the dispatcher of e2.
C3_Witness ==
    \E p \in Procs :
        /\ DeliverDone(p)
        /\ loc[p].ret = TRUE
        /\ loc[p].log = <<"e2">>
        /\ Len(delivered[DispOf("e2")]) = 1
        /\ delivered[DispOf("e1")] = << >>

\* An AddRoute call of p that has done all it does to the table: tbl is
\* the table it found, pkts the addresses it was given.
AddRouteDone(p) == pc[p] \in {"AddRoute_Unlock", "done"} /\ loc[p].op = "AddRoute"

AddRouteFailed(p) == AddRouteDone(p) /\ loc[p].ret.err # "nil"

\* C5: an AddRoute that names an address already in the table returns an
\* error, whoever claims it, and no step ever removes or rebinds an entry
\* of the table: an address has one endpoint, the first that claimed it.
C5_DuplicateRejected ==
    /\ [](\A p \in Procs : (AddRouteDone(p) /\ \E k \in 1..Len(loc[p].pkts) : loc[p].pkts[k] \in DOMAIN loc[p].tbl) => loc[p].ret.err # "nil")
    /\ [](\A a \in DOMAIN routes : routes[a] \in VNICs)
    /\ [][\A a \in DOMAIN routes : a \in DOMAIN routes' /\ routes'[a] = routes[a]]_vars

\* An endpoint claimed again an address it already held, and was refused.
C5_Witness ==
    \E p \in Procs :
        /\ pc[p] = "done"
        /\ AddRouteFailed(p)
        /\ loc[p].ret.addr \in DOMAIN loc[p].tbl
        /\ loc[p].tbl[loc[p].ret.addr] = loc[p].v
        /\ routes[loc[p].ret.addr] = loc[p].v

\* The positions of addrs at which AddRoute finds the address taken: bound
\* in the table tbl the call found, or named earlier in the same call.
Conflicts(addrs, tbl) == {k \in 1..Len(addrs) : addrs[k] \in DOMAIN tbl \/ \E j \in 1..(k - 1) : addrs[j] = addrs[k]}

FirstConflict(addrs, tbl) == CHOOSE k \in Conflicts(addrs, tbl) : \A m \in Conflicts(addrs, tbl) : k <= m

\* The table tbl with every address of the set S bound to v.
Bound(tbl, S, v) == [a \in DOMAIN tbl \cup S |-> IF a \in S THEN v ELSE tbl[a]]

\* C6: when AddRoute(e, a1..an) fails at ak, the first address already
\* taken, the table the call leaves is the table it found with a1..a(k-1)
\* bound to e and nothing else changed: no rollback, ak as it was, and no
\* later address added.
C6_PartialFailure ==
    \A p \in Procs :
        (pc[p] = "AddRoute_Unlock" /\ AddRouteFailed(p)) =>
            /\ Conflicts(loc[p].pkts, loc[p].tbl) # {}
            /\ LET k == FirstConflict(loc[p].pkts, loc[p].tbl)
               IN /\ loc[p].ret.addr = loc[p].pkts[k]
                  /\ routes = Bound(loc[p].tbl, {loc[p].pkts[j] : j \in 1..(k - 1)}, loc[p].v)

\* The second address belonged to the other endpoint: the first stays bound.
C6_Witness ==
    \E p \in Procs :
        /\ pc[p] = "AddRoute_Unlock"
        /\ AddRouteFailed(p)
        /\ Len(loc[p].pkts) >= 2
        /\ loc[p].pkts[1] \notin DOMAIN loc[p].tbl
        /\ loc[p].pkts[2] \in DOMAIN loc[p].tbl
        /\ loc[p].tbl[loc[p].pkts[2]] # loc[p].v
        /\ routes[loc[p].pkts[1]] = loc[p].v


\* The SendFrame calls made so far by the WritePackets calls in progress.
SendFrameCalls == UNION {{loc[p].log[i] : i \in 1..Len(loc[p].log)} : p \in {q \in Procs : loc[q].op = "WritePackets"}}

CloseSettled(v) == vnic[v].isclosed /\ \A p \in Procs : ~(loc[p].v = v /\ pc[p] \in {"Close_SetDisp", "Close_Hook"})

\* The hook calls the first Close of v owes: the hook installed when it ran.
HookOwed(v) == IF closedWith[v] = NoHook THEN << >> ELSE <<closedWith[v]>>

\* C7: however many Close calls are made, from however many goroutines,
\* the on-close hook runs once (never, when none was installed), and once
\* a Close has returned the endpoint is closed and has no dispatcher.
C7_CloseOnce ==
    \A v \in VNICs :
        /\ Len(hookLog[v]) <= 1
        /\ CloseSettled(v) => hookLog[v] = HookOwed(v)
        /\ \A p \in Procs : (pc[p] = "done" /\ loc[p].op = "Close" /\ loc[p].v = v) => CloseSettled(v) /\ vnic[v].disp = NoDisp

\* A second Close found the endpoint closed; the hook has run once.
C7_Witness ==
    \E p \in Procs :
        /\ pc[p] = "done"
        /\ loc[p].op = "Close"
        /\ loc[p].ret = "closed"
        /\ hookLog[loc[p].v] = <<"h1">>

\* C8: no step reopens a closed endpoint or gives it a dispatcher (an
\* Attach after Close changes nothing), and IsAttached answers false
\* whenever it finds the endpoint closed.
C8_ClosedForGood ==
    /\ [][\A v \in VNICs : vnic[v].isclosed => (vnic'[v].isclosed /\ (vnic[v].disp = NoDisp => vnic'[v].disp = NoDisp))]_vars
    /\ [](\A p \in Procs : (pc[p] = "Attach_Unlock" /\ loc[p].ret = "closed") => vnic[loc[p].v].disp = NoDisp)
    /\ [](\A p \in Procs : (pc[p] = "done" /\ loc[p].op = "IsAttached" /\ loc[p].pre.isclosed) => loc[p].ret = FALSE)

\* Attach(d1) returned from a closed endpoint, which still has no dispatcher.
C8_Witness ==
    \E p \in Procs :
        /\ pc[p] = "done"
        /\ loc[p].op = "Attach"
        /\ loc[p].arg = DispOf(loc[p].v)
        /\ loc[p].ret = "closed"
        /\ vnic[loc[p].v].disp = NoDisp

\* The methods that read the endpoint under the read lock.
Readers == {"IsAttached", "InjectFrame", "WritePackets"}

\* C9: Close changes isclosed and disp as one step for every reader.  A
\* goroutine holding the read lock in IsAttached, InjectFrame or
\* WritePackets sees the fields as they were when it took the lock, never
\* closed with a dispatcher, and what it copied out is that view.
C9_ConsistentView ==
    \A v \in VNICs :
        /\ vmu[v].writer = NoProc => (vnic[v].isclosed => vnic[v].disp = NoDisp)
        /\ \A p \in vmu[v].readers :
            (loc[p].v = v /\ loc[p].op \in Readers) =>
                /\ loc[p].pre = vnic[v]
                /\ pc[p] = "IsAttached_RUnlock" => loc[p].ret = (loc[p].pre.disp # NoDisp /\ ~loc[p].pre.isclosed)
                /\ pc[p] = "Inject_RUnlock" => (loc[p].lDisp = loc[p].pre.disp /\ loc[p].lClosed = loc[p].pre.isclosed /\ loc[p].lMtu = loc[p].pre.mtu)
                /\ pc[p] = "WritePackets_RUnlock" => (loc[p].lNet = loc[p].pre.network /\ loc[p].lClosed = loc[p].pre.isclosed /\ loc[p].lMtu = loc[p].pre.mtu)

\* Close is between its two writes, closed with the dispatcher still set,
\* while InjectFrame waits for the lock.
C9_Witness ==
    \E p, q \in Procs :
        /\ pc[p] = "Close_SetDisp"
        /\ vnic[loc[p].v].isclosed
        /\ vnic[loc[p].v].disp # NoDisp
        /\ pc[q] = "Inject_RLock"
        /\ loc[q].v = loc[p].v

\* A WritePackets call of p that went through its batch.
WritePacketsDone(p) == pc[p] = "done" /\ loc[p].op = "WritePackets" /\ ~loc[p].lClosed /\ loc[p].lNet # NoNet

\* The frames of a batch that are neither empty nor longer than the MTU.
Sendable(pkts, mtu) == SelectSeq(pkts, LAMBDA f : Len(f) > 0 /\ Len(f) <= mtu)

Accepted(entries) == SelectSeq(entries, LAMBDA e : e.ok)

\* C10: WritePackets calls SendFrame once for each frame of the batch that
\* is neither empty nor over the MTU, in the order of the batch and
\* whatever the earlier answers were, and returns the number of calls
\* that answered true, with a nil error.
C10_CountsAccepted ==
    \A p \in Procs :
        WritePacketsDone(p) =>
            LET sent == Sendable(loc[p].pkts, loc[p].pre.mtu)
            IN /\ Len(loc[p].log) = Len(sent)
               /\ \A i \in 1..Len(sent) : loc[p].log[i].pkt = sent[i]
               /\ loc[p].ret = [n |-> Len(Accepted(loc[p].log)), err |-> "nil"]

\* The first frame was refused and the second, sent all the same, accepted.
C10_Witness ==
    \E p \in Procs :
        /\ WritePacketsDone(p)
        /\ Len(loc[p].log) = 2
        /\ ~loc[p].log[1].ok
        /\ loc[p].log[2].ok
        /\ loc[p].ret.n = 1


\* A WritePackets call of p that found the endpoint closed or without a network.
WritePacketsBailed(p) == loc[p].op = "WritePackets" /\ pc[p] \in {"WritePackets_Loop", "done"} /\ (loc[p].pre.isclosed \/ loc[p].pre.network = NoNet)

\* C11: a WritePackets that finds the endpoint closed, or with no network,
\* makes no SendFrame call, whatever the batch, and returns the count zero.
C11_NoSendWhenClosedOrNoNet ==
    \A p \in Procs :
        WritePacketsBailed(p) =>
            /\ pc[p] = "done"
            /\ loc[p].log = << >>
            /\ loc[p].ret.n = 0

\* A frame that would have been sent was offered to a closed endpoint that
\* has a network: nothing reached the transit queue.
C11_Witness ==
    \E p \in Procs :
        /\ WritePacketsBailed(p)
        /\ loc[p].pre.isclosed
        /\ loc[p].pre.network # NoNet
        /\ \E i \in 1..Len(loc[p].pkts) : loc[p].pkts[i] = <<69>>
        /\ inflight = << >>

\* C12 as stated: WritePackets on a closed endpoint, or on one built with
\* no network, returns the count zero with the error ErrNoNet, and on an
\* open endpoint with a network it returns a nil error.
C12_ErrNoNet ==
    \A p \in Procs :
        (pc[p] = "done" /\ loc[p].op = "WritePackets") =>
            IF loc[p].pre.isclosed \/ loc[p].pre.network = NoNet
            THEN loc[p].ret = [n |-> 0, err |-> "ErrNoNet"]
            ELSE loc[p].ret.err = "nil"


\* The goroutines whose Dump call has made its select.
Dumpers == {p \in Procs : loc[p].op = "Dump" /\ pc[p] \in {"Dump_Drop", "done"}}

\* C13: Dump builds a snapshot of the first min(len(packet), snapSize)
\* bytes with the packet's true length.  With fewer than C snapshots
\* pending the snapshot is taken and Dropped() is left alone; with C
\* pending it is discarded and Dropped() goes up by exactly one.  The
\* queue never holds more than C snapshots.
C13_DumpBounded ==
    /\ [](Len(tr.snaps) <= tr.cap)
    /\ [](\A p \in Dumpers :
            LET e == loc[p].log[1]
            IN /\ e.snap.length = Len(loc[p].pkt)
               /\ Len(e.snap.data) = Min(Len(loc[p].pkt), tr.snapSize)
               /\ \A i \in 1..Len(e.snap.data) : e.snap.data[i] = loc[p].pkt[i]
               /\ Len(e.before) < tr.cap => e.sent /\ pc[p] = "done" /\ (e.after = Append(e.before, e.snap) \/ e.handed)
               /\ Len(e.before) >= tr.cap => ~e.sent /\ e.after = e.before)
    /\ [][\A p \in Procs : (pc[p] = "Dump_Select" /\ pc'[p] = "done") => tr'.dropped = tr.dropped]_vars
    /\ [][\A p \in Procs : (pc[p] = "Dump_Drop" /\ pc'[p] = "done") => tr'.dropped = tr.dropped + 1]_vars
    /\ [][tr'.dropped # tr.dropped => \E p \in Procs : pc[p] = "Dump_Drop" /\ pc'[p] = "done"]_vars

\* A packet longer than the snapshot size arrived with the queue full: its
\* snapshot was cut, then discarded, and counted.
C13_Witness ==
    \E p \in Dumpers :
        /\ pc[p] = "done"
        /\ loc[p].ret = "dropped"
        /\ Len(loc[p].log[1].before) = tr.cap
        /\ Len(loc[p].log[1].snap.data) < loc[p].log[1].snap.length
        /\ tr.dropped = loc[p].log[1].dropped + 1

\* The first Close call: the one that ran the function passed to once.Do.
FirstCloseDone(p) == pc[p] = "done" /\ loc[p].op = "TraceClose" /\ loc[p].num = 1

\* No call to the sink has returned an error.
SinkNeverFailed == \A i \in 1..Len(wc.log) : wc.log[i].err \in {"nil", "pending"}

\* C14: with a queue of capacity 1 and saveLoop held inside the sink's
\* write of the file header, two Dump calls that return before the write
\* does leave Dropped() at 1; and when no call to the sink fails, Close
\* returns no error.
C14_OneDroppedOfTwo ==
    /\ (tr.cap = 1 /\ task.pc = "header_writing" /\ tr.dumps = 2) => tr.dropped = 1
    /\ \A p \in Procs : (FirstCloseDone(p) /\ SinkNeverFailed) => loc[p].ret = {}

\* saveLoop is still inside the header write; two Dump calls have returned.
C14_Witness ==
    /\ tr.cap = 1
    /\ task.pc = "header_writing"
    /\ tr.dumps = 2
    /\ tr.dropped = 1
    /\ Len(tr.snaps) = 1


\* C15: a Dump call always has its next step to take, whatever saveLoop
\* is doing (about to write the header, inside a write that may never
\* return, reading, blocked, stopped) and whether or not Close has run,
\* for every goroutine calling it.
C15_DumpNeverWaits ==
    \A p \in Procs :
        /\ pc[p] = "Dump_Select" => ENABLED Dump_Select(p)
        /\ pc[p] = "Dump_Drop" => ENABLED Dump_Drop(p)

\* Close has returned and saveLoop stopped on an empty queue; a Dump that
\* came later left its snapshot in the queue, and returned.
C15_Witness ==
    /\ task.pc = "stopped"
    /\ tr.once = "done"
    /\ SinkNeverFailed
    /\ tr.snaps # << >>
    /\ \E p \in Procs : pc[p] = "done" /\ loc[p].op = "Dump" /\ loc[p].ret = "sent"

\* The calls the sink received, by kind.
SinkCalls(what) == {i \in 1..Len(wc.log) : wc.log[i].what = what}

\* The error joined into the result of a finished first Close.
CloseReturned(p, err) == FirstCloseDone(p) /\ err \in loc[p].ret

\* C16: the file header is the first thing written, it is written once,
\* and packet records follow only a header that was written.  When the
\* header write fails saveLoop stops, no packet record is written, and
\* Close returns that error.
C16_HeaderFirst ==
    /\ SinkCalls("header") \subseteq {1}
    /\ SinkCalls("packet") # {} => wc.log[1] = SinkCall("Write", "header", NoSnap, "nil")
    /\ (wc.log # << >> /\ wc.log[1].err = "writeErr") =>
        /\ task.pc = "stopped"
        /\ SinkCalls("packet") = {}
        /\ tr.errch = <<"writeErr">> \/ (tr.errch = << >> /\ tr.once # "fresh")
        /\ \A p \in Procs : FirstCloseDone(p) => CloseReturned(p, "writeErr")

\* The header could not be written, nor the sink closed: Close returned
\* both errors and the sink saw nothing else.
C16_Witness ==
    \E p \in Procs :
        /\ FirstCloseDone(p)
        /\ loc[p].ret = {"writeErr", "closeErr"}
        /\ wc.log = <<SinkCall("Write", "header", NoSnap, "writeErr"), SinkCall("Close", "close", NoSnap, "closeErr")>>

\* C17 as stated: when the write of a packet record fails, nothing more is
\* written and the first Close returns an error holding the write error,
\* and the sink's close error when closing fails too.
C17_WriteErrorReported ==
    \A i \in SinkCalls("packet") :
        wc.log[i].err = "writeErr" =>
            /\ \A j \in SinkCalls("packet") : j <= i
            /\ \A p \in Procs : FirstCloseDone(p) => (CloseReturned(p, "writeErr") /\ (loc[p].lNet = "closeErr" => CloseReturned(p, "closeErr")))

\* The snapshots whose records the sink was given, in order.
RECURSIVE Written(_)
Written(log) == IF log = << >> THEN << >> ELSE (IF Head(log).what = "packet" THEN <<Head(log).snap>> ELSE << >>) \o Written(Tail(log))

IsPrefix(a, b) == Len(a) <= Len(b) /\ SubSeq(b, 1, Len(a)) = a

\* C18: saveLoop writes the snapshots in the order they were accepted;
\* once stop is signalled it never blocks on the queue, and it stops only
\* on an empty queue after the signal or on a failed write.  So when no
\* write has failed and the sink is closed, every snapshot accepted by a
\* Dump that returned before Close was called has been written.
C18_DrainsBeforeStop ==
    /\ [](IsPrefix(Written(wc.log), tr.accepted))
    /\ []((tr.ctxDone /\ task.pc \in {"read", "parked"}) => ENABLED (ReadOrDrain_Recv \/ ReadOrDrain_Empty \/ ReadOrDrain_Wake))
    /\ [][(task.pc # "stopped" /\ task'.pc = "stopped") => ((tr.ctxDone /\ tr.snaps = << >>) \/ ~SinkNeverFailed')]_vars
    /\ []((SinkCalls("close") # {} /\ SinkNeverFailed) => IsPrefix(tr.owed, Written(wc.log)))

\* Two snapshots were accepted before Close was called; both were written,
\* in order, and then the sink was closed.
C18_Witness ==
    /\ Len(tr.owed) = 2
    /\ tr.owed[1] # tr.owed[2]
    /\ SinkNeverFailed
    /\ SinkCalls("close") = {4}
    /\ Written(wc.log) = tr.owed

C20_CloseResult ==
    \A p \in Procs :
        FirstCloseDone(p) =>
            /\ loc[p].ret = {} <=> (loc[p].arg = "nil" /\ loc[p].lNet = "nil")
            /\ loc[p].arg # "nil" => CloseReturned(p, loc[p].arg)
            /\ loc[p].lNet # "nil" => CloseReturned(p, loc[p].lNet)

\* A packet record could not be written, nor the sink closed: both errors
\* came back from Close.
C20_Witness ==
    \E p \in Procs :
        /\ FirstCloseDone(p)
        /\ loc[p].arg = "writeErr"
        /\ loc[p].lNet = "closeErr"
        /\ SinkCalls("packet") # {}
        /\ loc[p].ret = {"writeErr", "closeErr"}


\* ---- C21 ----

\* A finished call of Close, whether or not it ran the function.
CloseDone(p) == pc[p] = "done" /\ loc[p].op = "TraceClose"

\* C21 as stated: every call of Close returns the result the first call
\* returned (the joined error when it failed, nil when it succeeded), and
\* a call made once the first has completed does not wait.
C21_SameResult ==
    /\ \A p, q \in Procs : CloseDone(p) /\ CloseDone(q) => loc[p].ret = loc[q].ret
    /\ \A p \in Procs : pc[p] = "TraceClose_Once" /\ tr.once = "done" => ENABLED TraceClose_Once(p)

\* ---- C22 ----

\* The positions of a call of Close that has not returned yet.
CloseLabels == {"TraceClose_Once", "TraceClose_Cancel", "TraceClose_Wait", "TraceClose_SinkClose", "TraceClose_Return"}

\* C22: saveLoop delivers exactly one result on errch, when it exits and
\* only then, and is never blocked in that send, whether or not Close has
\* been called; once it has exited it does nothing more.  Under fair
\* scheduling, with a sink that answers and finitely many Dump calls,
\* every call of Close returns.
C22_OneResultThenExit ==
    /\ [](Len(tr.results) <= 1 /\ (task.pc = "stopped" <=> Len(tr.results) = 1))
    /\ [](task.pc # "sending")
    /\ [][task.pc = "stopped" => task' = task /\ tr.results' = tr.results]_vars
    /\ \A p \in Procs : (pc[p] \in CloseLabels) ~> CloseDone(p)

\* saveLoop has exited on a failed packet write and left its result in
\* errch while nobody had called Close.
C22_Witness ==
    /\ task.pc = "stopped"
    /\ ~tr.closeCalled
    /\ Len(tr.errch) = 1
    /\ \E i \in SinkCalls("packet") : wc.log[i].err = "writeErr"

\* ---- C23 ----

NewStackFailed(p) == pc[p] = "done" /\ loc[p].op = "NewStack" /\ loc[p].ret.err # "nil"

\* C25 as stated: once NewStack has failed on route registration, no
\* address of the routing table leads to the endpoint it made, whatever
\* the list of addresses was.
C25_FailedStackUnreachable ==
    \A p \in Procs :
        NewStackFailed(p) => \A a \in DOMAIN routes : routes[a] # loc[p].v

\* ---- C24 ----

\* The goroutine of the example that has written its packet.
Transmitted(p) == p \in Writers /\ loc[p].op = "WritePackets"

\* C24: with stacks at A and B on one Internet, once A's endpoint has
\* written one packet addressed to B and the pump delivers every frame it
\* reads from InFlight(), B's dispatcher ends up with that packet, byte
\* for byte and once only, and A's dispatcher never gets anything.
C24_PumpDelivers ==
    /\ [](delivered["d1"] = << >>)
    /\ [](Len(delivered["d2"]) <= 1)
    /\ [](\A k \in 1..Len(delivered["d2"]) : \E p \in Procs : Transmitted(p) /\ DeliveredBytes(delivered["d2"][k]) = loc[p].pkts[1] /\ delivered["d2"][k].proto = "ipv4.ProtocolNumber")
    /\ \A p \in Procs : Transmitted(p) ~> (Len(delivered["d2"]) = 1)

\* The pump was blocked on InFlight() twice: it delivered the frame handed
\* to it and B's dispatcher holds the payload.
C24_Witness ==
    /\ Len(delivered["d2"]) = 1
    /\ delivered["d2"][1].data = IPv4Packet(AddrB4, <<7>>)
    /\ \E p \in Procs : Transmitted(p) /\ pc[p] = "done" /\ loc[p].ret = [n |-> 1, err |-> "nil"]
    /\ recvq # << >>

\* ---- C26 ----

\* The positions of a Deliver that has looked the destination up.
LookedUp(p) == loc[p].op = "Deliver" /\ pc[p] \in {"Deliver_RUnlock", "Deliver_Return", "done"} \cup InjectLabels

\* C26: no step removes an entry of the routing table or gives its
\* address to another endpoint.  So a Deliver that looks up a bound
\* address finds the endpoint the address was bound to and passes the
\* frame to its InjectFrame; when that endpoint is closed the Deliver
\* returns false, the entry stays, and an AddRoute succeeds only with
\* addresses that were not in the table.
C26_TableOnlyGrows ==
    /\ [][\A a \in DOMAIN routes : a \in DOMAIN routes' /\ routes'[a] = routes[a]]_vars
    /\ [](\A p \in Procs : (LookedUp(p) /\ loc[p].dst \in DOMAIN loc[p].tbl) => loc[p].v = routes[loc[p].dst])
    /\ [](\A p \in Procs : (DeliverDone(p) /\ loc[p].dst \in DOMAIN loc[p].tbl) =>
            /\ loc[p].log = <<routes[loc[p].dst]>>
            /\ loc[p].pre.isclosed => loc[p].ret = FALSE)
    /\ [](\A p \in Procs : (AddRouteDone(p) /\ ~AddRouteFailed(p)) => \A k \in 1..Len(loc[p].pkts) : loc[p].pkts[k] \notin DOMAIN loc[p].tbl)

\* 10.0.0.1 was bound to e1 and e1 was closed: a Deliver for 10.0.0.1
\* went to e1 and returned false, the entry is still there, and e2 was
\* refused the address.
C26_Witness ==
    /\ vnic["e1"].isclosed
    /\ AddrA4 \in DOMAIN routes
    /\ routes[AddrA4] = "e1"
    /\ \E p, q \in Procs :
        /\ DeliverDone(p)
        /\ loc[p].pre.isclosed
        /\ loc[p].log = <<"e1">>
        /\ loc[p].ret = FALSE
        /\ pc[q] = "AddRoute_Unlock"
        /\ AddRouteFailed(q)
        /\ loc[q].v = "e2"

\* ---- C27 ----

\* The operations of the Internet other than SendFrame.
RouterOps == {"AddRoute", "Deliver", "NewStack"}

\* A consumer p takes the oldest pending frame from InFlight() in this step.
Received(p) ==
    /\ pc[p] = "Recv_Chan"
    /\ pc'[p] = "done"
    /\ inflight # << >>
    /\ inflight' = Tail(inflight)
    /\ loc'[p].pkt = Head(inflight)

\* A WritePackets of p appends a frame through SendFrame in this step.
Enqueued(p) == pc[p] = "WritePackets_Loop" /\ Len(inflight') = Len(inflight) + 1 /\ SubSeq(inflight', 1, Len(inflight)) = inflight

\* C27: the pending frames change only when SendFrame appends one or a
\* consumer receives the oldest from InFlight(); no step of AddRoute,
\* Deliver or NewStack (NewVNIC), and no call of InFlight(), changes
\* them; Deliver works on the frame it is given, in the queue or not.
C27_NeverDrainsItself ==
    /\ [][inflight' # inflight => \E p \in Procs : Received(p) \/ Enqueued(p)]_vars
    /\ [][(\E p \in Procs : loc[p].op \in RouterOps /\ pc'[p] # pc[p]) => inflight' = inflight]_vars
    /\ [][(\E p \in Procs : pc[p] = "idle" /\ pc'[p] = "Recv_Chan") => inflight' = inflight]_vars
    /\ [](\A p \in Procs : DeliverDone(p) => loc[p].pkts = <<DrainOther>> /\ loc[p].log = <<"e1">>)

\* A frame that was never written has been delivered to e1's dispatcher
\* while the frame that was written is still pending.
C27_Witness ==
    /\ inflight = <<DrainWritten>>
    /\ \E p \in Procs : DeliverDone(p) /\ loc[p].ret = TRUE /\ loc[p].pkts = <<DrainOther>>
    /\ Len(delivered["d1"]) = 1
    /\ delivered["d1"][1].data = DrainOther

\* ---- C28 ----

\* C28: IsAttached answers true exactly when, as it holds the lock, the
\* endpoint has a dispatcher and is not closed.  A new endpoint has no
\* dispatcher; Attach on an open endpoint installs the one it is given,
\* nil included, and on a closed one changes nothing; a closed endpoint
\* has no dispatcher; InjectFrame on an endpoint without one is false.
C28_IsAttached ==
    /\ \A p \in Procs : pc[p] = "IsAttached_RUnlock" =>
            loc[p].ret = (vnic[loc[p].v].disp # NoDisp /\ ~vnic[loc[p].v].isclosed)
    /\ \A p \in Procs : pc[p] = "Attach_Unlock" =>
            IF loc[p].ret = "open" THEN vnic[loc[p].v].disp = loc[p].arg /\ ~vnic[loc[p].v].isclosed
            ELSE vnic[loc[p].v].disp = NoDisp /\ vnic[loc[p].v].isclosed
    /\ \A v \in VNICs : (vmu[v].writer = NoProc /\ vnic[v].isclosed) => vnic[v].disp = NoDisp
    /\ (ops = 0) => \A v \in VNICs : vnic[v].disp = NoDisp /\ ~vnic[v].isclosed
    /\ \A p \in Procs : (InjectDone(p) /\ loc[p].pre.disp = NoDisp) => loc[p].ret = FALSE /\ loc[p].num = 0

\* IsAttached answered true after Attach(d); then Attach(nil) detached
\* the open endpoint and an InjectFrame was refused.
C28_Witness ==
    /\ ~vnic["e1"].isclosed
    /\ vnic["e1"].disp = NoDisp
    /\ \E p, q \in Procs :
        /\ pc[p] = "done" /\ loc[p].op = "IsAttached" /\ loc[p].ret = TRUE
        /\ pc[q] = "done" /\ loc[q].op = "Attach" /\ loc[q].arg = NoDisp /\ loc[q].ret = "open"

\* ---- C29 ----

\* The packets the parser has no destination for.
Unparseable(pkt) ==
    \/ Len(pkt) = 0
    \/ Nibble(pkt) \notin {4, 6}
    \/ Nibble(pkt) = 4 /\ Len(pkt) < 20
    \/ Nibble(pkt) = 6 /\ Len(pkt) < 40

\* dst holds the n bytes of pkt that follow the first skip bytes.
BytesAt(dst, pkt, skip, n) == Len(dst) = n /\ \A k \in 1..n : dst[k] = pkt[skip + k]

\* C29: a Deliver that got past the parser holds as destination the 4
\* bytes at offsets 16..19 of an IPv4 packet of 20 bytes or more, or the
\* 16 bytes at offsets 24..39 of an IPv6 packet of 40 bytes or more, and
\* looks that address up; a Deliver of an empty packet, of another
\* version, of an IPv4 packet under 20 bytes or of an IPv6 packet under 40
\* bytes returns false without a lookup and without a delivery, whatever
\* registered address the bytes present hold.
C29_DestinationFromBytes ==
    \A p \in Procs :
        (loc[p].op = "Deliver" /\ pc[p] # "Deliver_Parse") =>
            LET pkt == loc[p].pkts[1]
            IN IF Unparseable(pkt)
               THEN /\ pc[p] = "done"
                    /\ loc[p].ret = FALSE
                    /\ loc[p].log = << >>
                    /\ loc[p].num = 0
                    /\ loc[p].tbl = << >>
               ELSE /\ Nibble(pkt) = 4 => BytesAt(loc[p].dst, pkt, 16, 4)
                    /\ Nibble(pkt) = 6 => BytesAt(loc[p].dst, pkt, 24, 16)
                    /\ pc[p] = "done" => loc[p].log = <<ParseRoutes[loc[p].dst]>>

\* Deliver refused a packet of version 7 that holds registered addresses
\* at both destination offsets, and delivered its IPv4 twin to e1.
C29_Witness ==
    \E p, q \in Procs :
        /\ DeliverDone(p) /\ loc[p].pkts[1] = BothOffsets(112) /\ loc[p].ret = FALSE
        /\ DeliverDone(q) /\ loc[q].pkts[1] = BothOffsets(69) /\ loc[q].ret = TRUE /\ loc[q].log = <<"e1">>
        /\ Len(delivered[DispOf("e1")]) = 1
        /\ delivered[DispOf("e2")] = << >>

\* ---- C30 ----

ConnectorDone(p) == pc[p] = "done" /\ loc[p].op \in ConnectorOps

\* The networks an operation of the adapter layer supports.
Supported(op) == IF op = "Listen" THEN {"tcp"} ELSE IF op = "ListenPacket" THEN {"udp"} ELSE {"tcp", "udp"}

\* C30: DialContext, Listen and ListenPacket given a network they do not
\* support or an address that is not an IP literal with a port return an
\* error and no connection and invoke nothing on the stack; with a valid
\* address the error of an unsupported network is EPROTOTYPE; with a
\* supported network and a valid address the stack is invoked, once.
C30_RejectsBeforeConnecting ==
    \A p \in Procs :
        ConnectorDone(p) =>
            LET valid == loc[p].pkt \in LiteralAddresses
                known == loc[p].arg \in Supported(loc[p].op)
            IN /\ (~valid \/ ~known) =>
                    /\ loc[p].ret.err # "nil"
                    /\ loc[p].ret.conn = "nil"
                    /\ loc[p].log = << >>
               /\ (valid /\ ~known) => loc[p].ret.err = "EPROTOTYPE"
               /\ (valid /\ known) => Len(loc[p].log) = 1
               /\ (loc[p].ret.conn = "nil") = (loc[p].ret.err # "nil")

\* DialContext of "tcp4" to 10.0.0.1:80 got EPROTOTYPE and DialContext of
\* "udp" to example.com:53 an error, neither reaching the stack.
C30_Witness ==
    \E p, q \in Procs :
        /\ ConnectorDone(p) /\ loc[p].op = "DialContext" /\ loc[p].arg = "tcp4"
        /\ loc[p].pkt \in LiteralAddresses /\ loc[p].ret.err = "EPROTOTYPE"
        /\ ConnectorDone(q) /\ loc[q].op = "DialContext" /\ loc[q].arg = "udp"
        /\ loc[q].pkt = Hostname \o <<":", "5", "3">> /\ loc[q].ret.err = "parse" /\ loc[q].log = << >>

\* ---- C31 ----

RemapDone(p) == pc[p] = "done" /\ loc[p].op = "errorsRemap"

\* The messages of the map that the text ends with.
KnownEndings(text) == {e \in errorsMap : \E k \in 0..Len(text) : SubSeq(text, k + 1, Len(text)) = e.suffix}

\* C31: errorsRemap returns nil for nil; for an error whose text ends
\* with a message of the map it returns the standard error of that
\* message, and no text ends with messages of two different errors; every
\* other error is returned as it was passed.
C31_RemapBySuffix ==
    \A p \in Procs :
        RemapDone(p) =>
            LET err == loc[p].pre
                known == KnownEndings(err.text)
            IN IF err = NilError THEN loc[p].ret = NilError
               ELSE IF known = {} THEN loc[p].ret = err
               ELSE \A e \in known : loc[p].ret = e.remapped

\* "dial: connection was refused" became ECONNREFUSED and the same
\* message followed by a period came back unchanged.
C31_Witness ==
    \E p, q \in Procs :
        /\ RemapDone(p) /\ HasPrefix(loc[p].pre.text, WrapText) /\ loc[p].ret = StdlibError("ECONNREFUSED")
        /\ RemapDone(q) /\ KnownEndings(SubSeq(loc[q].pre.text, 1, Len(loc[q].pre.text) - 1)) # {} /\ loc[q].ret = loc[q].pre

\* ---- C32 ----

\* The positive sizes among the options, in the order given.
PositiveOptions == SelectSeq(tr.options, LAMBDA n : n > 0)

\* C32: the snapshot queue of a PCAPTrace has the capacity of the last
\* option with a positive size, options with a size of zero or less
\* change nothing, and without a positive option the capacity is 4096; so
\* the capacity is at least 1, and the queue never holds more.
C32_BufferOption ==
    tr.impl = "PCAPTrace" =>
        /\ tr.cap >= 1
        /\ PositiveOptions = << >> => tr.cap = 4096
        /\ PositiveOptions # << >> => tr.cap = PositiveOptions[Len(PositiveOptions)]
        /\ Len(tr.snaps) <= tr.cap

\* A positive option followed by a negative one left a queue of that
\* size, which then refused a snapshot.
C32_Witness ==
    /\ tr.options = <<1, -1>>
    /\ tr.cap = 1
    /\ Len(tr.snaps) = 1
    /\ tr.dropped = 1

\* ---- C33 ----

AddRouteSucceeded(p) == AddRouteDone(p) /\ loc[p].ret.err = "nil"

\* The addresses an AddRoute call claims.
Claimed(p) == {loc[p].pkts[k] : k \in 1..Len(loc[p].pkts)}

\* C33: while a Deliver is looking the table up no AddRoute is between
\* its Lock and its Unlock; the table a Deliver looked up holds all the
\* addresses of a successful AddRoute or none of them; and two AddRoute
\* calls that succeeded claimed no address in common.
C33_AddRouteAtomic ==
    /\ \A p, q \in Procs :
            pc[p] \in {"Deliver_Lookup", "Deliver_RUnlock"} => pc[q] \notin {"AddRoute_Loop", "AddRoute_Unlock"}
    /\ \A p, q \in Procs :
            (LookedUp(p) /\ loc[p].dst # << >> /\ AddRouteSucceeded(q)) =>
                \/ Claimed(q) \subseteq DOMAIN loc[p].tbl
                \/ Claimed(q) \cap DOMAIN loc[p].tbl = {}
    /\ \A p, q \in Procs :
            (p # q /\ AddRouteSucceeded(p) /\ AddRouteSucceeded(q)) => Claimed(p) \cap Claimed(q) = {}

\* A Deliver waits for the table while an AddRoute of two addresses has
\* bound the first only.
C33_Witness ==
    \E p, q \in Procs :
        /\ pc[p] = "Deliver_RLock"
        /\ ~CanRLock(ixmu)
        /\ pc[q] = "AddRoute_Loop" /\ loc[q].op = "AddRoute"
        /\ Len(loc[q].pkts) = 2 /\ loc[q].i = 2
        /\ DOMAIN routes = {loc[q].pkts[1]}
        /\ loc[q].pkts[2] = loc[p].dst

\* ---- C34 ----

\* Where a goroutine is about to read a field in a method that takes the
\* read lock.
FieldReads == {"IsAttached_Read", "Get_Read", "WritePackets_ReadNetwork", "WritePackets_ReadClosed", "WritePackets_ReadMtu", "Inject_ReadDisp", "Inject_ReadClosed", "Inject_ReadMtu"}

\* Where a goroutine is about to read or write a field in a method that
\* takes the write lock.
FieldWrites == {"Attach_Set", "Close_Check", "Close_SetClosed", "Close_SetDisp", "Close_Hook", "Set_Write"}

\* C34: a goroutine about to read a field in IsAttached, LinkAddress,
\* MTU, WritePackets or InjectFrame holds the endpoint's read lock and
\* finds the field as it was when it took the lock; one about to read or
\* write a field in Attach, Close or a setter holds the write lock; and
\* every step that changes a field of an endpoint is a step of the
\* goroutine that holds its write lock.
C34_FieldsUnderLock ==
    /\ [](\A p \in Procs :
            /\ pc[p] \in FieldReads => (p \in vmu[loc[p].v].readers /\ vmu[loc[p].v].writer = NoProc /\ loc[p].pre = vnic[loc[p].v])
            /\ pc[p] \in FieldWrites => (vmu[loc[p].v].writer = p /\ vmu[loc[p].v].readers = {}))
    /\ [][\A v \in VNICs :
            vnic'[v] # vnic[v] => \E p \in Procs : vmu[v].writer = p /\ loc[p].v = v /\ pc[p] \in FieldWrites /\ pc'[p] # pc[p]]_vars

\* SetMTU holds the write lock, about to write, while MTU() waits to read.
C34_Witness ==
    \E p, q \in Procs :
        /\ pc[p] = "Set_Write" /\ loc[p].op = "SetMTU"
        /\ pc[q] = "Get_RLock" /\ loc[q].op = "MTU" /\ loc[q].v = loc[p].v
        /\ ~CanRLock(vmu[loc[q].v])

\* ---- C35 ----

\* A Close of the endpoint v has returned to its caller.
CloseHasReturned(v) == \E q \in Procs : pc[q] = "done" /\ loc[q].op = "Close" /\ loc[q].v = v

\* C35: once a Close of the endpoint has returned, no InjectFrame on it
\* invokes a dispatcher: the step of InjectFrame that follows the checks
\* delivers nothing.
C35_NoDispatchAfterClose ==
    [][\A p \in Procs :
        (pc[p] = "Inject_Deliver" /\ pc'[p] # pc[p] /\ CloseHasReturned(loc[p].v)) => delivered' = delivered]_vars

\* ---- C36 ----

\* C36: once a Close of the endpoint has returned, no WritePackets on it
\* calls SendFrame: the transit queue and the blocked consumers stay as
\* they are in every step of its loop.
C36_NoSendAfterClose ==
    [][\A p \in Procs :
        (pc[p] = "WritePackets_Loop" /\ loc'[p].i # loc[p].i /\ CloseHasReturned(loc[p].v)) => (inflight' = inflight /\ recvq' = recvq)]_vars

\* ---- C37 ----

\* Close has invoked the hook of its endpoint and has not released the
\* lock yet: the hook is running, or has just returned.
InHook(p) == loc[p].op = "Close" /\ pc[p] \in {"Hook_Lock", "Hook_Unlock", "Close_Unlock"} /\ loc[p].ret = "open" /\ hookLog[loc[p].v] # << >>

\* The hook of the Close p is in calls a locking method of the endpoint
\* being closed.
HookReenters(p) == pc[p] = "Hook_Lock" /\ HookTarget(vnic[loc[p].v].closefunc) = loc[p].v

\* Where a goroutine is inside a method of an endpoint, past its Lock or
\* RLock and before its Unlock or RUnlock.
InsideLock == FieldReads \cup FieldWrites \cup {"IsAttached_RUnlock", "Get_RUnlock", "WritePackets_RUnlock", "Inject_RUnlock", "Attach_Unlock", "Set_Unlock", "Close_Unlock"}

\* C37: while the hook runs Close holds the write lock of its endpoint,
\* and no other goroutine is inside a method of that endpoint; a hook
\* that calls a locking method of the endpoint being closed cannot take
\* the lock, now or after any step, so that Close never returns and the
\* lock is never released.
C37_HookUnderLock ==
    /\ [](\A p \in Procs : InHook(p) =>
            /\ vmu[loc[p].v].writer = p
            /\ \A q \in Procs \ {p} : loc[q].v = loc[p].v => pc[q] \notin InsideLock)
    /\ [](\A p \in Procs : HookReenters(p) => ~ENABLED Hook_Lock(p))
    /\ [][\A p \in Procs : HookReenters(p) => (HookReenters(p)' /\ vmu'[loc[p].v].writer = p)]_vars

\* Close waits inside a hook that calls IsAttached on the endpoint being
\* closed, and an InjectFrame waits for the read lock.
C37_Witness ==
    \E p, q \in Procs :
        /\ HookReenters(p)
        /\ vnic[loc[p].v].closefunc \in ReadLockingHooks
        /\ pc[q] = "Inject_RLock" /\ loc[q].v = loc[p].v

\* ---- C38 ----

\* The SendFrame calls that a WritePackets in progress or finished made.
SendFrameLog(p) == IF loc[p].op = "WritePackets" THEN loc[p].log ELSE << >>

\* C38: the frames received from InFlight() so far, followed by the
\* pending ones, are the frames SendFrame accepted, in the order and with
\* the bytes it accepted them; a consumer that got a frame holds the last
\* one received; and a SendFrame call that answered false left the
\* pending frames as they were and handed its frame to nobody.
C38_FifoLossless ==
    /\ transit.received \o inflight = transit.accepted
    /\ \A p \in Procs :
            (pc[p] = "done" /\ loc[p].op = "Recv" /\ loc[p].ret = "frame") =>
                \E k \in 1..Len(transit.received) : transit.received[k] = loc[p].pkt
    /\ \A p \in Procs : \A k \in 1..Len(SendFrameLog(p)) :
            ~SendFrameLog(p)[k].ok => (SendFrameLog(p)[k].after = SendFrameLog(p)[k].before /\ SendFrameLog(p)[k].to = NoProc)

\* Two different frames were accepted, the first was received, the
\* second is pending, and a third was refused.
C38_Witness ==
    /\ Len(transit.accepted) = 2
    /\ transit.accepted[1] # transit.accepted[2]
    /\ transit.received = <<transit.accepted[1]>>
    /\ inflight = <<transit.accepted[2]>>
    /\ \E p \in Procs : \E k \in 1..Len(SendFrameLog(p)) : ~SendFrameLog(p)[k].ok

\* ---- C39 ----

\* The snapshots saveLoop has taken off the queue or from a Dump's hand:
\* the one it holds before the sink's write, and those it gave the sink.
TakenByTask == (IF task.pc = "save" THEN 1 ELSE 0) + Len(Written(wc.log))

\* No write the sink was given has failed.
NoWriteFailed == \A i \in 1..Len(wc.log) : wc.log[i].call = "Write" => wc.log[i].err # "writeErr"

\* The function Close runs once has returned.
TraceCloseReturned == tr.once = "done"

\* Every Dump that returned is one record the sink wrote, in the order of
\* the Dumps, or one unit of Dropped().
EveryDumpAccounted ==
    /\ Written(wc.log) = tr.accepted
    /\ \A i \in SinkCalls("packet") : wc.log[i].err = "nil"
    /\ tr.dumps = Len(tr.accepted) + tr.dropped

\* What holds in every state, whatever Close does.
DumpsConserved ==
    /\ [](tr.dumps = Len(tr.snaps) + TakenByTask + tr.dropped)
    /\ [][tr'.dropped >= tr.dropped]_vars

\* C39 as stated: the Dump calls that returned are the pending snapshots,
\* the ones saveLoop took and Dropped(), which never decreases; and once
\* Close has returned with no write failure and no Dump issued after Close
\* was called, every Dump is one written record or one unit of Dropped().
C39_CaptureConservation ==
    /\ DumpsConserved
    /\ []((TraceCloseReturned /\ NoWriteFailed /\ tr.overlap # "issued") => EveryDumpAccounted)

\* C39 amended: the same, for a Close called when no Dump was running and
\* with no Dump issued after that.
C39_ConservationWhenDumpsReturned ==
    /\ DumpsConserved
    /\ []((TraceCloseReturned /\ NoWriteFailed /\ tr.overlap = "none") => EveryDumpAccounted)

\* Two Dumps returned, one accepted and one dropped, before Close was
\* called; Close has returned and the sink wrote the one record.
C39_Witness ==
    /\ TraceCloseReturned /\ NoWriteFailed /\ tr.overlap = "none"
    /\ tr.dumps = 2 /\ tr.dropped = 1
    /\ Len(Written(wc.log)) = 1

\* ---- C40 ----

\* p has finished a Deliver call that found the target of the frame.
DeliverRouted(p) == pc[p] = "done" /\ loc[p].op = "Deliver" /\ loc[p].v # "nil"

\* What InjectFrame found on the target refuses the frame: it is longer
\* than the target's MTU, or the target is closed or detached.
TargetRefuses(p) == ToUint32(Len(loc[p].pkt)) > vnic[loc[p].v].mtu \/ loc[p].lClosed \/ loc[p].lDisp = NoDisp

\* C40: WritePackets offers the queue every frame within the sender's
\* MTU, whatever the target's, and counts the ones the queue took; Deliver
\* answers what the target's InjectFrame answered; so a frame the sender
\* counted as sent, routed to a target whose MTU is smaller or that is
\* closed or detached, makes Deliver answer false and reaches no
\* dispatcher, and the target's dispatcher never gets a frame longer than
\* the target's MTU.
C40_SenderAndTargetMtu ==
    /\ \A p \in Procs : WritePacketsDone(p) =>
            /\ (loc[p].log # << >>) = (ToUint32(Len(FrameOf(p))) <= vnic["e1"].mtu)
            /\ loc[p].ret.n = Cardinality({k \in 1..Len(loc[p].log) : loc[p].log[k].ok})
            /\ loc[p].ret.err = "nil"
    /\ \A p \in Procs : DeliverRouted(p) =>
            /\ loc[p].ret = loc[p].injRet
            /\ \E k \in 1..Len(transit.accepted) : transit.accepted[k] = loc[p].pkt
            /\ TargetRefuses(p) => (loc[p].ret = FALSE /\ loc[p].num = 0)
            /\ ~TargetRefuses(p) => (loc[p].ret = TRUE /\ loc[p].num = 1)
    /\ \A k \in 1..Len(delivered["d2"]) : ToUint32(Len(DeliveredBytes(delivered["d2"][k]))) <= vnic["e2"].mtu
    /\ delivered["d1"] = << >>

\* The sender counted one frame as sent; it is longer than the MTU of the
\* open, attached target, Deliver has answered false and the target's
\* dispatcher has nothing.
C40_Witness ==
    \E p, q \in Procs :
        /\ WritePacketsDone(p) /\ loc[p].ret.n = 1
        /\ DeliverRouted(q) /\ loc[q].v = "e2" /\ loc[q].pkt = FrameOf(p)
        /\ Len(loc[q].pkt) > vnic["e2"].mtu /\ Len(loc[q].pkt) <= vnic["e1"].mtu
        /\ ~vnic["e2"].isclosed /\ vnic["e2"].disp = DispOf("e2")
        /\ loc[q].ret = FALSE
        /\ delivered["d2"] = << >>

=============================================================================
